---- MODULE Spec2Model ----
(***************************************************************************)
(* Multi-strategy portfolio execution and risk engine.                     *)
(*                                                                         *)
(*   engine = "atlas"    the backtest simulator of project_atlas           *)
(*                       (PortfolioManager + MarketSimulator)              *)
(*   engine = "citadel"  the live coordinator of project_citadel           *)
(*                       (ChiefInvestmentOfficer + RiskManager + Alerter)  *)
(*   engine = "v13"      the v13.0 live coordinator kept in the repository *)
(*                       next to it ("Quant T py")                         *)
(*   engine = "atlas_v13"  the v13.0 backtest simulator kept with it       *)
(*                                                                         *)
(* Spec runs one engine from its construction.  ExecuteOrdersSpec calls    *)
(* execute_orders (current or v13.0) once on any book and any queue.       *)
(* RebalanceSpec calls _rebalance_capital twice on a book that holds       *)
(* positions.  RoundTripSpec calls TradeAnalyzer.calculate_round_trip_pnl  *)
(* twice on a trade log.  OptimizerSpec runs ParameterOptimizer.run over   *)
(* the sampled parameter combinations.  MetricsSpec calls                  *)
(* PerformanceAnalyzer.calculate_metrics on an equity curve.  LongRunSpec  *)
(* runs both backtest simulators over data longer than the history buffer. *)
(*                                                                         *)
(* Money and prices are fixed-point integers (the code uses floats); a     *)
(* division truncates.  Exit prices are kept multiplied by 1000 so that    *)
(* price * (1 - STOP_LOSS_PCT) is exact.  Indicator arithmetic over the    *)
(* price history (moving averages, RSI, ATR) is an input of each decision: *)
(* the model draws the outcome of the comparisons, and keeps every guard   *)
(* on history length, shares and cash as the code has it.                  *)
(***************************************************************************)
EXTENDS Integers, Sequences, FiniteSets, TLC

VARIABLES
    engine,             \* which engine this run is
    initial_capital,    \* PortfolioManager / ChiefInvestmentOfficer.initial_capital
    cash,               \* strategy.cash, per strategy
    pc,                 \* position in MarketSimulator.run / in the live loop
    last_order,         \* observation: the order handled last and what became of it
    decided,            \* observation: decide_action was called at the last visit
                        \* of a strategy by the allocator
    \* -- backtest
    shares,             \* AtlasStrategy.shares, per strategy
    stop_loss_price,    \* AtlasStrategy.stop_loss_price (x1000), per strategy
    take_profit_price,  \* AtlasStrategy.take_profit_price (x1000), per strategy
    price,              \* MarketSimulator.price
    history,            \* MarketSimulator.history: the buffered rows (by bar index)
    i,                  \* MarketSimulator.run: index of the bar being processed
    rows,               \* MarketSimulator.data: the number of its rows
    order_queue,        \* MarketSimulator.order_queue
    orders_to_process,  \* MarketSimulator.execute_orders: local copy of the queue
    trade_log,          \* MarketSimulator.trade_log
    equity_curve,       \* MarketSimulator.run: equity_curve_values with their dates
    k,                  \* run_daily_operations: index of the strategy being visited
    \* -- live
    positions,          \* LiveStrategy.positions, per strategy and symbol
    stop_loss_prices,   \* LiveStrategy.stop_loss_prices (x1000)
    take_profit_prices, \* LiveStrategy.take_profit_prices (x1000)
    last_known_prices,  \* ChiefInvestmentOfficer.last_known_prices
    trade_count,        \* ChiefInvestmentOfficer.trade_count
    current_value,      \* ChiefInvestmentOfficer.current_value
    peak_equity,        \* RiskManager.peak_equity
    is_drawdown_breached, \* RiskManager.is_drawdown_breached
    portfolio_file,     \* the ledger file live_portfolio.json
    live_trades,        \* the trade log file live_trades.log
    alerts,             \* what the Alerter was sent since the last assess_new_day
    ticks,              \* on_market_data: the tick batch being processed
    todo,               \* on_market_data: the (symbol, strategy) pairs still to visit
    batches,            \* tick batches delivered so far
    session_peak,       \* observation: highest total equity seen at a tick batch
                        \* since the last assess_new_day
    breach_seen,        \* observation: a trade was checked, since the last
                        \* assess_new_day, while the drawdown exceeded the limit
    \* -- analysis
    pnl_list,           \* calculate_round_trip_pnl: the list it returned last
    open_buys,          \* calculate_round_trip_pnl: its open_buys when it returned,
                        \* per strategy the positions in the log of the open buys
    data,               \* ParameterOptimizer.data: what replaying the rows does to
                        \* a book, per parameter combination
    combos_to_test,     \* ParameterOptimizer.run: the combinations still to try
    results             \* ParameterOptimizer.results

backtest == <<shares, stop_loss_price, take_profit_price, price, history, i,
              order_queue, orders_to_process, trade_log, equity_curve, k>>

live == <<positions, stop_loss_prices, take_profit_prices, last_known_prices,
          trade_count, current_value, peak_equity, is_drawdown_breached,
          portfolio_file, live_trades, alerts, ticks, todo, batches,
          session_peak, breach_seen>>

analysis == <<pnl_list, open_buys, data, combos_to_test, results>>

vars == <<engine, rows, initial_capital, cash, pc, last_order, decided, backtest, live,
          analysis>>

---------------------------------------------------------------------------
(* Bounds of the model *)

\* rows of historical data replayed by one backtest
MaxBars == 52

\* rows replayed by a v13.0 run
MaxV13Bars == 22

\* tick batches delivered to one live coordinator
MaxBatches == 3

---------------------------------------------------------------------------
(* Configuration *)

\* STRATEGY_REGISTRY, in insertion order
StrategyOrder == <<"Trend", "MeanReversion">>

Strategies == {StrategyOrder[n] : n \in 1..Len(StrategyOrder)}

\* StrategyConfig defaults; percentages in per mille
StrategyConfig ==
    [Trend |-> [SHORT_WINDOW |-> 20, LONG_WINDOW |-> 50, RSI_WINDOW |-> 14,
                TAKE_PROFIT_PCT |-> 50, STOP_LOSS_PCT |-> 20],
     MeanReversion |-> [WINDOW |-> 20, RSI_WINDOW |-> 14,
                        TAKE_PROFIT_PCT |-> 30, STOP_LOSS_PCT |-> 15]]

\* FirmConfig.FIRM_CAPITAL values the backtest is run with
FirmCapitals == {60100}

\* FirmConfig.BacktestParameters.SLIPPAGE_BPS
SLIPPAGE_BPS == 10

\* AtlasStrategy.risk_per_trade, in percent
risk_per_trade == 2

\* TransactionCostCalculator rates, in units of 1e-7 of the trade value
BROKERAGE_PCT == 3000
STT_PCT == 10000
EXCHANGE_TXN_PCT == 345
SEBI_FEES_PCT == 10
STAMP_DUTY_PCT == 1500
\* GST on brokerage and exchange charges, in percent
GST_PCT == 18

RateScale == 10^7

\* closing prices of the replayed rows
Prices == {10000, 20000}

\* average true range values the history may yield (0: undefined or zero)
Atrs == {0, 200, 300, 600, 1000}

\* what the indicators of one decision show: dir is the entry/exit comparison
\* (Trend: short SMA above/below long SMA; MeanReversion: price below the
\* lower band / above the SMA), osc whether the RSI gate passes
MarketViews == [dir : {"enter", "exit", "none"}, osc : BOOLEAN, atr : Atrs]

Max(S) == CHOOSE x \in S : \A y \in S : y <= x

---------------------------------------------------------------------------
(* TransactionCostCalculator *)

calculate(trade_value, side) ==
    LET brokerage == (trade_value * BROKERAGE_PCT) \div RateScale
        stt == (trade_value * STT_PCT) \div RateScale
        exchange_txn_charge == (trade_value * EXCHANGE_TXN_PCT) \div RateScale
        gst == ((brokerage + exchange_txn_charge) * GST_PCT) \div 100
        sebi_fees == (trade_value * SEBI_FEES_PCT) \div RateScale
        stamp_duty == IF side = "buy"
                      THEN (trade_value * STAMP_DUTY_PCT) \div RateScale ELSE 0
    IN  brokerage + stt + exchange_txn_charge + gst + sebi_fees + stamp_duty

---------------------------------------------------------------------------
(* AtlasStrategy *)

Signal == [BUY |-> 1, SELL |-> -1, HOLD |-> 0]

get_equity(s, current_price) == cash[s] + shares[s] * current_price

\* what decide_action leaves behind: the signal and quantity it returns and
\* the exit prices of the strategy afterwards
Decision(sig, qty, sl, tp) ==
    [signal |-> sig, quantity |-> qty, stop_loss_price |-> sl, take_profit_price |-> tp]

Hold(s) == Decision(Signal.HOLD, 0, stop_loss_price[s], take_profit_price[s])

\* the entry branch shared by both families: size by ATR, arm the exits
Enter(s, view) ==
    IF view.atr > 0
    THEN Decision(Signal.BUY,
                  (cash[s] * risk_per_trade) \div (100 * view.atr),
                  price * (1000 - StrategyConfig[s].STOP_LOSS_PCT),
                  price * (1000 + StrategyConfig[s].TAKE_PROFIT_PCT))
    ELSE Hold(s)

AtlasTrendFollowing_decide_action(s, view) ==
    IF Len(history) < StrategyConfig[s].LONG_WINDOW THEN Hold(s)
    ELSE IF shares[s] = 0
         THEN IF view.dir = "enter" /\ view.osc THEN Enter(s, view) ELSE Hold(s)
         ELSE IF view.dir = "exit" THEN Decision(Signal.SELL, 0, 0, 0) ELSE Hold(s)

\* A faulty decide_action that enters whether or not shares are held:
AtlasMeanReversion_decide_action_adding_to_position(s, view) ==
    IF Len(history) < StrategyConfig[s].WINDOW THEN Hold(s)
    ELSE IF view.dir = "enter" /\ view.osc THEN Enter(s, view)
    ELSE IF shares[s] > 0 /\ view.dir = "exit" THEN Decision(Signal.SELL, 0, 0, 0)
    ELSE Hold(s)

AtlasMeanReversion_decide_action(s, view) ==
    IF Len(history) < StrategyConfig[s].WINDOW THEN Hold(s)
    ELSE IF shares[s] = 0
         THEN IF view.dir = "enter" /\ view.osc THEN Enter(s, view) ELSE Hold(s)
         ELSE IF view.dir = "exit" THEN Decision(Signal.SELL, 0, 0, 0) ELSE Hold(s)

decide_action(s, view) ==
    IF s = "Trend" THEN AtlasTrendFollowing_decide_action(s, view)
    ELSE AtlasMeanReversion_decide_action(s, view)

---------------------------------------------------------------------------
(* PortfolioManager *)

\* A faulty _rebalance_capital that hands every strategy the whole capital:
_rebalance_capital_unsplit(capital) == [s \in Strategies |-> capital]

_rebalance_capital(capital) ==
    [s \in Strategies |-> capital \div Cardinality(Strategies)]

get_total_equity(current_price) ==
    LET RECURSIVE Sum(_)
        Sum(n) == IF n = 0 THEN 0
                  ELSE Sum(n - 1) + get_equity(StrategyOrder[n], current_price)
    IN  Sum(Len(StrategyOrder))

---------------------------------------------------------------------------
(* MarketSimulator *)

Order(id, side, qty) == [id |-> id, side |-> side, qty |-> qty]

submit_order(queue, strategy_id, side, quantity) ==
    IF quantity > 0 THEN Append(queue, Order(strategy_id, side, quantity)) ELSE queue

execution_price(side) ==
    IF side = "buy" THEN (price * (10000 + SLIPPAGE_BPS)) \div 10000
    ELSE (price * (10000 - SLIPPAGE_BPS)) \div 10000

\* run: the warm-up window, from the strategies' configurations
max_warmup_window ==
    Max({20} \cup UNION {{StrategyConfig[s][f] :
                              f \in {"LONG_WINDOW", "WINDOW", "RSI_WINDOW"}
                                    \cap DOMAIN StrategyConfig[s]} :
                           s \in Strategies})

TrimHistory(h) ==
    IF Len(h) > max_warmup_window + 50 THEN Tail(h) ELSE h

\* Faulty settlements, against which the settlement properties are tried.
\* The buy guard forgets the transaction cost:
Settlement_guard_without_cost(order) ==
    LET strategy == order.id
        exec == execution_price(order.side)
        trade_value == order.qty * exec
        transaction_cost == calculate(trade_value, order.side)
        fill == [id |-> order.id, side |-> order.side, qty |-> order.qty,
                 price |-> exec, cost |-> transaction_cost]
        kept == [shares |-> shares[strategy], cash |-> cash[strategy], fills |-> <<>>]
    IN  IF order.side = "buy"
        THEN IF cash[strategy] >= trade_value
             THEN [shares |-> shares[strategy] + order.qty,
                   cash |-> cash[strategy] - (trade_value + transaction_cost),
                   fills |-> <<fill>>]
             ELSE kept
        ELSE IF shares[strategy] >= order.qty
             THEN [shares |-> shares[strategy] - order.qty,
                   cash |-> cash[strategy] + (trade_value - transaction_cost),
                   fills |-> <<fill>>]
             ELSE kept

\* A buy that cannot be paid is filled for one share less:
Settlement_partial_buy(order) ==
    LET strategy == order.id
        exec == execution_price(order.side)
        Value(q) == q * exec
        Funds(q) == Value(q) + calculate(Value(q), "buy")
        Fill(q) == [id |-> order.id, side |-> order.side, qty |-> q,
                    price |-> exec, cost |-> calculate(Value(q), order.side)]
        kept == [shares |-> shares[strategy], cash |-> cash[strategy], fills |-> <<>>]
    IN  IF order.side = "buy"
        THEN IF cash[strategy] >= Funds(order.qty)
             THEN [shares |-> shares[strategy] + order.qty,
                   cash |-> cash[strategy] - Funds(order.qty),
                   fills |-> <<Fill(order.qty)>>]
             ELSE IF order.qty > 1 /\ cash[strategy] >= Funds(order.qty - 1)
             THEN [shares |-> shares[strategy] + order.qty - 1,
                   cash |-> cash[strategy] - Funds(order.qty - 1),
                   fills |-> <<Fill(order.qty - 1)>>]
             ELSE kept
        ELSE IF shares[strategy] >= order.qty
             THEN [shares |-> shares[strategy] - order.qty,
                   cash |-> cash[strategy]
                              + (Value(order.qty) - calculate(Value(order.qty), "sell")),
                   fills |-> <<Fill(order.qty)>>]
             ELSE kept

\* A sell is settled for what is held when less than the quantity is held:
Settlement_sell_what_is_held(order) ==
    LET strategy == order.id
        exec == execution_price(order.side)
        q == IF order.side = "sell" /\ shares[strategy] < order.qty
             THEN shares[strategy] ELSE order.qty
        trade_value == q * exec
        transaction_cost == calculate(trade_value, order.side)
        fill == [id |-> order.id, side |-> order.side, qty |-> q,
                 price |-> exec, cost |-> transaction_cost]
        kept == [shares |-> shares[strategy], cash |-> cash[strategy], fills |-> <<>>]
    IN  IF order.side = "buy"
        THEN IF cash[strategy] >= trade_value + transaction_cost
             THEN [shares |-> shares[strategy] + q,
                   cash |-> cash[strategy] - (trade_value + transaction_cost),
                   fills |-> <<fill>>]
             ELSE kept
        ELSE IF q > 0
             THEN [shares |-> shares[strategy] - q,
                   cash |-> cash[strategy] + (trade_value - transaction_cost),
                   fills |-> <<fill>>]
             ELSE kept

\* The fill is recorded and the shares are moved, the cash is not:
Settlement_fill_without_cash(order) ==
    LET strategy == order.id
        exec == execution_price(order.side)
        trade_value == order.qty * exec
        transaction_cost == calculate(trade_value, order.side)
        fill == [id |-> order.id, side |-> order.side, qty |-> order.qty,
                 price |-> exec, cost |-> transaction_cost]
        kept == [shares |-> shares[strategy], cash |-> cash[strategy], fills |-> <<>>]
    IN  IF order.side = "buy"
        THEN IF cash[strategy] >= trade_value + transaction_cost
             THEN [shares |-> shares[strategy] + order.qty,
                   cash |-> cash[strategy] - (trade_value + transaction_cost),
                   fills |-> <<fill>>]
             ELSE kept
        ELSE IF shares[strategy] >= order.qty
             THEN [shares |-> shares[strategy] - order.qty,
                   cash |-> cash[strategy],
                   fills |-> <<fill>>]
             ELSE kept

\* the settlement of one order against its strategy: the new cash and shares
\* and the fill recorded, if any
Settlement(order) ==
    LET strategy == order.id
        exec == execution_price(order.side)
        trade_value == order.qty * exec
        transaction_cost == calculate(trade_value, order.side)
        fill == [id |-> order.id, side |-> order.side, qty |-> order.qty,
                 price |-> exec, cost |-> transaction_cost]
    IN  IF order.side = "buy"
        THEN LET required_funds == trade_value + transaction_cost
             IN  IF cash[strategy] >= required_funds
                 THEN [shares |-> shares[strategy] + order.qty,
                       cash |-> cash[strategy] - required_funds,
                       fills |-> <<fill>>]
                 ELSE [shares |-> shares[strategy], cash |-> cash[strategy],
                       fills |-> <<>>]
        ELSE IF shares[strategy] >= order.qty
             THEN [shares |-> shares[strategy] - order.qty,
                   cash |-> cash[strategy] + (trade_value - transaction_cost),
                   fills |-> <<fill>>]
             ELSE [shares |-> shares[strategy], cash |-> cash[strategy],
                   fills |-> <<>>]

---------------------------------------------------------------------------
(* project_citadel: configuration.  Live money is in units of 1000 INR.   *)

\* LiveConfig.SYMBOLS_TO_TRADE, in order (the first of the list)
SymbolOrder == <<"ADANIENT.NS">>

Symbols == {SymbolOrder[n] : n \in 1..Len(SymbolOrder)}

\* LiveStrategyParameters; percentages in per mille
LiveStrategyParameters ==
    [Trend |-> [SHORT_WINDOW |-> 20, LONG_WINDOW |-> 50, RSI_WINDOW |-> 14,
                TAKE_PROFIT_PCT |-> 50, STOP_LOSS_PCT |-> 20],
     MeanReversion |-> [WINDOW |-> 20, RSI_WINDOW |-> 14,
                        TAKE_PROFIT_PCT |-> 30, STOP_LOSS_PCT |-> 15]]

\* LiveConfig.INITIAL_CAPITAL
INITIAL_CAPITAL == 1000

\* LiveRiskParameters
MAX_ORDER_VALUE == 200
\* in percent
DAILY_DRAWDOWN_LIMIT == 5

\* LiveStrategy.risk_per_trade, in percent
live_risk_per_trade == 2

\* prices a tick may carry
LivePrices == {1, 25}

\* lengths of the trailing history a tick may carry
HistoryLengths == {10, 60}

NoTick == [present |-> FALSE, price |-> 0, history |-> 0]

Ticks == {NoTick} \cup [present : {TRUE}, price : LivePrices, history : HistoryLengths]

NoTicks == [symbol \in Symbols |-> NoTick]

\* what the indicators of one live decision show
LiveViews == [dir : {"enter", "exit", "none"}, osc : BOOLEAN]

\* what the two file writes of a fill may do: the append to live_trades.log
\* succeeds or raises; the ledger is written, or open() raises and the file
\* stays as it was, or the dump raises after the file was truncated
IOOutcomes == [log : BOOLEAN, save : {"written", "untouched", "truncated"}]

NoOrder == [id |-> "", symbol |-> "", side |-> "", qty |-> 0, price |-> 0,
            risk |-> "none", settled |-> FALSE]

ZeroBook == [s \in Strategies |-> [symbol \in Symbols |-> 0]]

---------------------------------------------------------------------------
(* LiveStrategy *)

live_get_equity(c, pos, prices) ==
    LET RECURSIVE Value(_)
        Value(n) == IF n = 0 THEN 0
                    ELSE Value(n - 1) + pos[SymbolOrder[n]] * prices[SymbolOrder[n]]
    IN  c + Value(Len(SymbolOrder))

\* what decide_action leaves behind: the signal and the symbol's exit prices
LiveDecision(sig, sl, tp) ==
    [signal |-> sig, stop_loss_price |-> sl, take_profit_price |-> tp]

LiveHold(s, symbol) ==
    LiveDecision(Signal.HOLD, stop_loss_prices[s][symbol], take_profit_prices[s][symbol])

_set_exit_prices(s, symbol, entry_price) ==
    LiveDecision(Signal.BUY,
                 entry_price * (1000 - LiveStrategyParameters[s].STOP_LOSS_PCT),
                 entry_price * (1000 + LiveStrategyParameters[s].TAKE_PROFIT_PCT))

LiveTrendFollowing_decide_action(s, symbol, tick, view) ==
    IF tick.history < LiveStrategyParameters[s].LONG_WINDOW THEN LiveHold(s, symbol)
    ELSE IF view.dir = "enter" /\ view.osc /\ positions[s][symbol] = 0
         THEN _set_exit_prices(s, symbol, tick.price)
    ELSE IF view.dir = "exit" /\ positions[s][symbol] > 0
         THEN LiveDecision(Signal.SELL, stop_loss_prices[s][symbol],
                           take_profit_prices[s][symbol])
    ELSE LiveHold(s, symbol)

\* A faulty decide_action that computes its bands over whatever history it gets:
LiveMeanReversion_decide_action_without_warmup(s, symbol, tick, view) ==
    IF view.dir = "enter" /\ view.osc /\ positions[s][symbol] = 0
         THEN _set_exit_prices(s, symbol, tick.price)
    ELSE IF view.dir = "exit" /\ positions[s][symbol] > 0
         THEN LiveDecision(Signal.SELL, stop_loss_prices[s][symbol],
                           take_profit_prices[s][symbol])
    ELSE LiveHold(s, symbol)

LiveMeanReversion_decide_action(s, symbol, tick, view) ==
    IF tick.history < LiveStrategyParameters[s].WINDOW THEN LiveHold(s, symbol)
    ELSE IF view.dir = "enter" /\ view.osc /\ positions[s][symbol] = 0
         THEN _set_exit_prices(s, symbol, tick.price)
    ELSE IF view.dir = "exit" /\ positions[s][symbol] > 0
         THEN LiveDecision(Signal.SELL, stop_loss_prices[s][symbol],
                           take_profit_prices[s][symbol])
    ELSE LiveHold(s, symbol)

live_decide_action(s, symbol, tick, view) ==
    IF s = "Trend" THEN LiveTrendFollowing_decide_action(s, symbol, tick, view)
    ELSE LiveMeanReversion_decide_action(s, symbol, tick, view)

---------------------------------------------------------------------------
(* RiskManager *)

\* what a call of is_trade_allowed returns and leaves behind
Verdict(allowed, sent, breached) ==
    [allowed |-> allowed, alerts |-> alerts \o sent, is_drawdown_breached |-> breached]

\* A faulty is_trade_allowed that has lost its order-value check:
is_trade_allowed_without_limit(side, quantity, px) ==
    Verdict(TRUE, <<>>, is_drawdown_breached)

is_trade_allowed(side, quantity, px) ==
    LET order_value == quantity * px IN
    IF order_value > MAX_ORDER_VALUE
    THEN Verdict(FALSE, <<"RISK VIOLATION">>, is_drawdown_breached)
    ELSE Verdict(TRUE, <<>>, is_drawdown_breached)

---------------------------------------------------------------------------
(* ChiefInvestmentOfficer *)

cio_get_total_equity(c, pos, prices) ==
    LET RECURSIVE Sum(_)
        Sum(n) == IF n = 0 THEN 0
                  ELSE Sum(n - 1) + live_get_equity(c[StrategyOrder[n]],
                                                    pos[StrategyOrder[n]], prices)
    IN  Sum(Len(StrategyOrder))

cio_rebalance_capital(capital) ==
    [s \in Strategies |-> capital \div Cardinality(Strategies)]

\* a ledger that keeps the holdings of the first strategy only
_save_portfolio_to_disk_of_first_strategy(pos) ==
    [status |-> "written",
     content |-> [s \in Strategies |->
                    [symbol \in {x \in Symbols : s = StrategyOrder[1] /\ pos[s][x] > 0}
                       |-> pos[s][symbol]]]]

\* the ledger: per strategy, the symbols held with their quantities
_save_portfolio_to_disk(pos) ==
    [status |-> "written",
     content |-> [s \in Strategies |->
                    [symbol \in {x \in Symbols : pos[s][x] > 0} |-> pos[s][symbol]]]]

NoLedger == [status |-> "absent", content |-> <<>>]
TruncatedLedger == [status |-> "truncated", content |-> <<>>]

_load_portfolio_from_disk(file) ==
    IF file.status = "written"
    THEN [s \in Strategies |->
            [symbol \in Symbols |->
               IF symbol \in DOMAIN file.content[s] THEN file.content[s][symbol] ELSE 0]]
    ELSE ZeroBook

\* the drawdown from the session's peak, as the observer computes it
DrawdownExceeded ==
    LET equity == cio_get_total_equity(cash, positions, last_known_prices) IN
    /\ session_peak > 0
    /\ (session_peak - equity) * 100 > DAILY_DRAWDOWN_LIMIT * session_peak

\* what a call of submit_order leaves behind
Submission(c, pos, count, trades, file, verdict, order) ==
    [cash |-> c, positions |-> pos, trade_count |-> count, live_trades |-> trades,
     portfolio_file |-> file, alerts |-> verdict.alerts,
     is_drawdown_breached |-> verdict.is_drawdown_breached, last_order |-> order]

LiveOrder(s, symbol, side, quantity, px, risk, settled) ==
    [id |-> s, symbol |-> symbol, side |-> side, qty |-> quantity, price |-> px,
     risk |-> risk, settled |-> settled]

\* the order left the state as it was (the Risk Manager, if consulted, aside)
Dropped(verdict, order) ==
    Submission(cash, positions, trade_count, live_trades, portfolio_file, verdict, order)

\* A faulty submit_order that counts the trade before it asks the Risk Manager:
cio_submit_order_counting_first(s, symbol, side, quantity, io) ==
    LET px == last_known_prices[symbol]
        unasked == Verdict(FALSE, <<>>, is_drawdown_breached)
    IN
    IF px <= 0 \/ quantity <= 0
    THEN Dropped(unasked, LiveOrder(s, symbol, side, quantity, px, "none", FALSE))
    ELSE
    LET verdict == is_trade_allowed(side, quantity, px)
        trade_value == quantity * px
    IN
    IF ~verdict.allowed
    THEN Submission(cash, positions, trade_count + 1, live_trades, portfolio_file,
                    verdict, LiveOrder(s, symbol, side, quantity, px, "denied", FALSE))
    ELSE IF (side = "buy" /\ cash[s] >= trade_value)
            \/ (side = "sell" /\ positions[s][symbol] >= quantity)
    THEN LET pos == [positions EXCEPT ![s][symbol] =
                        @ + (IF side = "buy" THEN quantity ELSE -quantity)]
             c == [cash EXCEPT ![s] =
                        IF side = "buy" THEN @ - trade_value ELSE @ + trade_value]
             line == [id |-> s, side |-> side, qty |-> quantity, symbol |-> symbol,
                      price |-> px, cash |-> c[s], pos |-> pos[s][symbol]]
         IN  Submission(c, pos, trade_count + 1,
                        IF io.log THEN Append(live_trades, line) ELSE live_trades,
                        CASE io.save = "written" -> _save_portfolio_to_disk(pos)
                          [] io.save = "untouched" -> portfolio_file
                          [] io.save = "truncated" -> TruncatedLedger,
                        verdict,
                        LiveOrder(s, symbol, side, quantity, px, "allowed", TRUE))
    ELSE Dropped(verdict, LiveOrder(s, symbol, side, quantity, px, "allowed", FALSE))

cio_submit_order(s, symbol, side, quantity, io) ==
    LET px == last_known_prices[symbol]
        unasked == Verdict(FALSE, <<>>, is_drawdown_breached)
    IN
    IF px <= 0 \/ quantity <= 0
    THEN Dropped(unasked, LiveOrder(s, symbol, side, quantity, px, "none", FALSE))
    ELSE
    LET verdict == is_trade_allowed(side, quantity, px)
        trade_value == quantity * px
    IN
    IF ~verdict.allowed
    THEN Dropped(verdict, LiveOrder(s, symbol, side, quantity, px, "denied", FALSE))
    ELSE IF (side = "buy" /\ cash[s] >= trade_value)
            \/ (side = "sell" /\ positions[s][symbol] >= quantity)
    THEN LET pos == [positions EXCEPT ![s][symbol] =
                        @ + (IF side = "buy" THEN quantity ELSE -quantity)]
             c == [cash EXCEPT ![s] =
                        IF side = "buy" THEN @ - trade_value ELSE @ + trade_value]
             line == [id |-> s, side |-> side, qty |-> quantity, symbol |-> symbol,
                      price |-> px, cash |-> c[s], pos |-> pos[s][symbol]]
         IN  Submission(c, pos, trade_count + 1,
                        IF io.log THEN Append(live_trades, line) ELSE live_trades,
                        CASE io.save = "written" -> _save_portfolio_to_disk(pos)
                          [] io.save = "untouched" -> portfolio_file
                          [] io.save = "truncated" -> TruncatedLedger,
                        verdict,
                        LiveOrder(s, symbol, side, quantity, px, "allowed", TRUE))
    ELSE Dropped(verdict, LiveOrder(s, symbol, side, quantity, px, "allowed", FALSE))

\* ChiefInvestmentOfficer.__init__ over the ledger found on disk: the
\* positions are loaded, the equity is taken (no cash is allotted yet and no
\* price is known), the Risk Manager starts its day with it, and the capital
\* is split
cio_init(file) ==
    LET pos == _load_portfolio_from_disk(file)
        zero_prices == [symbol \in Symbols |-> 0]
        zero_cash == [s \in Strategies |-> 0]
        value == cio_get_total_equity(zero_cash, pos, zero_prices)
    IN  [positions |-> pos, last_known_prices |-> zero_prices,
         current_value |-> value, peak_equity |-> value,
         cash |-> cio_rebalance_capital(INITIAL_CAPITAL)]

\* the (symbol, strategy) pairs on_market_data visits for a batch, in order
Pairs(batch) ==
    LET RECURSIVE Of(_)
        Of(n) == IF n = 0 THEN <<>>
                 ELSE Of(n - 1) \o
                      (IF batch[SymbolOrder[n]].present /\ batch[SymbolOrder[n]].history > 0
                       THEN [m \in 1..Len(StrategyOrder) |->
                               <<SymbolOrder[n], StrategyOrder[m]>>]
                       ELSE <<>>)
    IN  Of(Len(SymbolOrder))

---------------------------------------------------------------------------
(* The v13.0 live engine ("Quant T py"): RiskManager and                   *)
(* ChiefInvestmentOfficer without ledger and take-profit.                  *)

\* LiveConfig.INITIAL_CAPITAL, in units of 1000 INR
V13_INITIAL_CAPITAL == 100000

\* LiveConfig.RiskParameters
V13_MAX_ORDER_VALUE == 1000
\* in percent
V13_DAILY_DRAWDOWN_LIMIT == 5

\* LiveStrategy.risk_per_trade, in percent, and stop_loss_pct, in per mille
v13_risk_per_trade == 2
v13_stop_loss_pct == 20

v13_StrategyParameters ==
    [Trend |-> [SHORT_WINDOW |-> 20, LONG_WINDOW |-> 50],
     MeanReversion |-> [WINDOW |-> 20]]

v13_is_trade_allowed(side, qty, px) ==
    LET exceeded == /\ peak_equity > 0
                    /\ (peak_equity - current_value) * 100
                          > V13_DAILY_DRAWDOWN_LIMIT * peak_equity
        entering == exceeded /\ ~is_drawdown_breached
        breached == is_drawdown_breached \/ entering
        sent == IF entering THEN <<"RISK BREACH">> ELSE <<>>
    IN
    IF breached /\ side = "buy" THEN Verdict(FALSE, sent, breached)
    ELSE IF qty * px > V13_MAX_ORDER_VALUE THEN Verdict(FALSE, sent, breached)
    ELSE Verdict(TRUE, sent, breached)

v13_get_total_equity(c, pos, prices) ==
    LET equity == cio_get_total_equity(c, pos, prices)
        held == {s \in Strategies : \E symbol \in Symbols : pos[s][symbol] # 0}
    IN  IF equity = 0 /\ held = {} THEN V13_INITIAL_CAPITAL ELSE equity

v13_rebalance_capital ==
    LET total_equity == v13_get_total_equity([s \in Strategies |-> 0], ZeroBook,
                                             [symbol \in Symbols |-> 0])
    IN  [s \in Strategies |-> total_equity \div Cardinality(Strategies)]

\* the stop of the symbol is carried in stop_loss_price; there is no take-profit
v13_LiveTrendFollowing_decide_action(s, symbol, tick, view) ==
    IF tick.history < v13_StrategyParameters[s].LONG_WINDOW THEN LiveHold(s, symbol)
    ELSE IF view.dir = "enter" /\ positions[s][symbol] = 0
         THEN LiveDecision(Signal.BUY, tick.price * (1000 - v13_stop_loss_pct), 0)
    ELSE IF view.dir = "exit" /\ positions[s][symbol] > 0
         THEN LiveDecision(Signal.SELL, 0, 0)
    ELSE LiveHold(s, symbol)

\* view.osc: the standard deviation of the window is not zero
v13_LiveMeanReversion_decide_action(s, symbol, tick, view) ==
    IF tick.history < v13_StrategyParameters[s].WINDOW THEN LiveHold(s, symbol)
    ELSE IF ~view.osc THEN LiveHold(s, symbol)
    ELSE IF view.dir = "enter" /\ positions[s][symbol] = 0
         THEN LiveDecision(Signal.BUY, tick.price * (1000 - v13_stop_loss_pct), 0)
    ELSE IF view.dir = "exit" /\ positions[s][symbol] > 0
         THEN LiveDecision(Signal.SELL, 0, 0)
    ELSE LiveHold(s, symbol)

v13_decide_action(s, symbol, tick, view) ==
    IF s = "Trend" THEN v13_LiveTrendFollowing_decide_action(s, symbol, tick, view)
    ELSE v13_LiveMeanReversion_decide_action(s, symbol, tick, view)

v13_submit_order(s, symbol, side, qty) ==
    LET px == last_known_prices[symbol]
        unasked == Verdict(FALSE, <<>>, is_drawdown_breached)
    IN
    IF ~(qty > 0) \/ px = 0
    THEN Dropped(unasked, LiveOrder(s, symbol, side, qty, px, "none", FALSE))
    ELSE
    LET verdict == v13_is_trade_allowed(side, qty, px)
        trade_val == qty * px
    IN
    IF ~verdict.allowed
    THEN Dropped(verdict, LiveOrder(s, symbol, side, qty, px, "denied", FALSE))
    ELSE IF (side = "buy" /\ cash[s] >= trade_val)
            \/ (side = "sell" /\ positions[s][symbol] >= qty)
    THEN Submission([cash EXCEPT ![s] =
                        IF side = "buy" THEN @ - trade_val ELSE @ + trade_val],
                    [positions EXCEPT ![s][symbol] =
                        @ + (IF side = "buy" THEN qty ELSE -qty)],
                    trade_count + 1, live_trades, portfolio_file, verdict,
                    LiveOrder(s, symbol, side, qty, px, "allowed", TRUE))
    ELSE Dropped(verdict, LiveOrder(s, symbol, side, qty, px, "allowed", FALSE))

---------------------------------------------------------------------------
(* Initial state: the engine constructed, no ledger on disk *)

BacktestFresh ==
    /\ shares = [s \in Strategies |-> 0]
    /\ stop_loss_price = [s \in Strategies |-> 0]
    /\ take_profit_price = [s \in Strategies |-> 0]
    /\ price = 0
    /\ history = <<>>
    /\ i = 0
    /\ order_queue = <<>>
    /\ orders_to_process = <<>>
    /\ trade_log = <<>>
    /\ equity_curve = <<>>
    /\ k = 1

LiveFresh ==
    /\ positions = ZeroBook
    /\ stop_loss_prices = ZeroBook
    /\ take_profit_prices = ZeroBook
    /\ last_known_prices = [symbol \in Symbols |-> 0]
    /\ trade_count = 0
    /\ is_drawdown_breached = FALSE
    /\ portfolio_file = NoLedger
    /\ live_trades = <<>>
    /\ alerts = <<>>
    /\ ticks = NoTicks
    /\ todo = <<>>
    /\ batches = 0
    /\ breach_seen = FALSE

AnalysisFresh ==
    /\ pnl_list = <<>>
    /\ open_buys = [s \in Strategies |-> <<>>]
    /\ data = <<>>
    /\ combos_to_test = <<>>
    /\ results = <<>>

AtlasInit ==
    /\ engine = "atlas"
    /\ rows = MaxBars
    /\ initial_capital \in FirmCapitals
    /\ cash = _rebalance_capital(initial_capital)
    /\ pc = "run"
    /\ current_value = 0 /\ peak_equity = 0 /\ session_peak = 0

CitadelInit ==
    /\ engine = "citadel"
    /\ rows = 0
    /\ initial_capital = INITIAL_CAPITAL
    /\ cash = cio_init(NoLedger).cash
    /\ current_value = cio_init(NoLedger).current_value
    /\ peak_equity = cio_init(NoLedger).peak_equity
    /\ session_peak = cio_init(NoLedger).peak_equity
    /\ pc = "idle"

V13Init ==
    /\ engine = "v13"
    /\ rows = 0
    /\ initial_capital = V13_INITIAL_CAPITAL
    /\ cash = v13_rebalance_capital
    /\ current_value = V13_INITIAL_CAPITAL
    /\ peak_equity = V13_INITIAL_CAPITAL
    /\ session_peak = V13_INITIAL_CAPITAL
    /\ pc = "idle"

\* FirmConfig.FIRM_CAPITAL of a v13.0 backtest
V13FirmCapitals == {2000000}

V13AtlasInit ==
    /\ engine = "atlas_v13"
    /\ rows = MaxV13Bars
    /\ initial_capital \in V13FirmCapitals
    /\ cash = _rebalance_capital(initial_capital)
    /\ pc = "run"
    /\ current_value = 0 /\ peak_equity = 0 /\ session_peak = 0

Init ==
    /\ last_order = NoOrder
    /\ decided = FALSE
    /\ AnalysisFresh
    /\ BacktestFresh
    /\ LiveFresh
    /\ (AtlasInit \/ CitadelInit \/ V13Init \/ V13AtlasInit)

---------------------------------------------------------------------------
(* MarketSimulator.run *)

\* the head of the loop: take the next row, buffer it, trim the buffer
NextBar ==
    /\ engine = "atlas" /\ pc = "run" /\ i < rows
    /\ \E close \in Prices : price' = close
    /\ history' = TrimHistory(Append(history, i))
    /\ IF i >= max_warmup_window - 1
       THEN pc' = "ops" /\ k' = 1 /\ i' = i
       ELSE pc' = "run" /\ k' = k /\ i' = i + 1
    /\ UNCHANGED <<engine, rows, analysis, decided, initial_capital, cash, last_order, shares, stop_loss_price,
                   take_profit_price, order_queue, orders_to_process, trade_log,
                   equity_curve, live>>

\* A faulty run_daily_operations whose stop-loss branch lacks the `continue':
\* the strategy is consulted after its position was put up for sale
DailyOperation_deciding_after_stop_loss ==
    /\ engine = "atlas" /\ pc = "ops" /\ k <= Len(StrategyOrder)
    /\ LET s == StrategyOrder[k] IN
       IF shares[s] > 0 /\ stop_loss_price[s] > 0
            /\ price * 1000 <= stop_loss_price[s]
       THEN \E view \in MarketViews :
              /\ order_queue' =
                     IF view.dir = "exit"
                     THEN submit_order(submit_order(order_queue, s, "sell", shares[s]),
                                       s, "sell", shares[s])
                     ELSE submit_order(order_queue, s, "sell", shares[s])
              /\ stop_loss_price' = [stop_loss_price EXCEPT ![s] = 0]
              /\ take_profit_price' = [take_profit_price EXCEPT ![s] = 0]
              /\ decided' = TRUE
       ELSE IF shares[s] > 0 /\ take_profit_price[s] > 0
                 /\ price * 1000 >= take_profit_price[s]
       THEN /\ order_queue' = submit_order(order_queue, s, "sell", shares[s])
            /\ stop_loss_price' = [stop_loss_price EXCEPT ![s] = 0]
            /\ take_profit_price' = [take_profit_price EXCEPT ![s] = 0]
            /\ decided' = FALSE
       ELSE \E view \in MarketViews :
              LET d == decide_action(s, view) IN
              /\ decided' = TRUE
              /\ stop_loss_price' = [stop_loss_price EXCEPT ![s] = d.stop_loss_price]
              /\ take_profit_price' =
                     [take_profit_price EXCEPT ![s] = d.take_profit_price]
              /\ order_queue' =
                     IF d.signal = Signal.BUY /\ d.quantity > 0
                     THEN submit_order(order_queue, s, "buy", d.quantity)
                     ELSE IF d.signal = Signal.SELL /\ shares[s] > 0
                     THEN submit_order(order_queue, s, "sell", shares[s])
                     ELSE order_queue
    /\ k' = k + 1
    /\ pc' = IF k = Len(StrategyOrder) THEN "exec" ELSE "ops"
    /\ UNCHANGED <<engine, rows, analysis, initial_capital, cash, last_order, shares, price, history,
                   i, orders_to_process, trade_log, equity_curve, live>>

\* A faulty run_daily_operations that checks the stop-loss only:
DailyOperation_without_take_profit ==
    /\ engine = "atlas" /\ pc = "ops" /\ k <= Len(StrategyOrder)
    /\ LET s == StrategyOrder[k] IN
       IF shares[s] > 0 /\ stop_loss_price[s] > 0
            /\ price * 1000 <= stop_loss_price[s]
       THEN /\ order_queue' = submit_order(order_queue, s, "sell", shares[s])
            /\ stop_loss_price' = [stop_loss_price EXCEPT ![s] = 0]
            /\ take_profit_price' = [take_profit_price EXCEPT ![s] = 0]
            /\ decided' = FALSE
       ELSE \E view \in MarketViews :
              LET d == decide_action(s, view) IN
              /\ decided' = TRUE
              /\ stop_loss_price' = [stop_loss_price EXCEPT ![s] = d.stop_loss_price]
              /\ take_profit_price' =
                     [take_profit_price EXCEPT ![s] = d.take_profit_price]
              /\ order_queue' =
                     IF d.signal = Signal.BUY /\ d.quantity > 0
                     THEN submit_order(order_queue, s, "buy", d.quantity)
                     ELSE IF d.signal = Signal.SELL /\ shares[s] > 0
                     THEN submit_order(order_queue, s, "sell", shares[s])
                     ELSE order_queue
    /\ k' = k + 1
    /\ pc' = IF k = Len(StrategyOrder) THEN "exec" ELSE "ops"
    /\ UNCHANGED <<engine, rows, analysis, initial_capital, cash, last_order, shares, price, history,
                   i, orders_to_process, trade_log, equity_curve, live>>

\* PortfolioManager.run_daily_operations, one strategy of its loop
DailyOperation ==
    /\ engine = "atlas" /\ pc = "ops" /\ k <= Len(StrategyOrder)
    /\ LET s == StrategyOrder[k] IN
       IF shares[s] > 0 /\ stop_loss_price[s] > 0
            /\ price * 1000 <= stop_loss_price[s]
       THEN /\ order_queue' = submit_order(order_queue, s, "sell", shares[s])
            /\ stop_loss_price' = [stop_loss_price EXCEPT ![s] = 0]
            /\ take_profit_price' = [take_profit_price EXCEPT ![s] = 0]
            /\ decided' = FALSE
       ELSE IF shares[s] > 0 /\ take_profit_price[s] > 0
                 /\ price * 1000 >= take_profit_price[s]
       THEN /\ order_queue' = submit_order(order_queue, s, "sell", shares[s])
            /\ stop_loss_price' = [stop_loss_price EXCEPT ![s] = 0]
            /\ take_profit_price' = [take_profit_price EXCEPT ![s] = 0]
            /\ decided' = FALSE
       ELSE \E view \in MarketViews :
              LET d == decide_action(s, view) IN
              /\ decided' = TRUE
              /\ stop_loss_price' = [stop_loss_price EXCEPT ![s] = d.stop_loss_price]
              /\ take_profit_price' =
                     [take_profit_price EXCEPT ![s] = d.take_profit_price]
              /\ order_queue' =
                     IF d.signal = Signal.BUY /\ d.quantity > 0
                     THEN submit_order(order_queue, s, "buy", d.quantity)
                     ELSE IF d.signal = Signal.SELL /\ shares[s] > 0
                     THEN submit_order(order_queue, s, "sell", shares[s])
                     ELSE order_queue
    /\ k' = k + 1
    /\ pc' = IF k = Len(StrategyOrder) THEN "exec" ELSE "ops"
    /\ UNCHANGED <<engine, rows, analysis, initial_capital, cash, last_order, shares, price, history,
                   i, orders_to_process, trade_log, equity_curve, live>>

\* A faulty execute_orders that copies the queue and forgets to clear it:
ExecuteOrders_keeping_queue ==
    /\ engine = "atlas" /\ pc = "exec"
    /\ IF order_queue = <<>>
       THEN pc' = "record" /\ UNCHANGED orders_to_process
       ELSE pc' = "settle" /\ orders_to_process' = order_queue
    /\ UNCHANGED <<engine, rows, analysis, decided, initial_capital, cash, last_order, shares, stop_loss_price,
                   take_profit_price, price, history, i, order_queue, trade_log,
                   equity_curve, k, live>>

\* MarketSimulator.execute_orders, up to its loop
ExecuteOrders ==
    /\ engine = "atlas" /\ pc = "exec"
    /\ IF order_queue = <<>>
       THEN pc' = "record" /\ UNCHANGED <<order_queue, orders_to_process>>
       ELSE /\ orders_to_process' = order_queue
            /\ order_queue' = <<>>
            /\ pc' = "settle"
    /\ UNCHANGED <<engine, rows, analysis, decided, initial_capital, cash, last_order, shares, stop_loss_price,
                   take_profit_price, price, history, i, trade_log, equity_curve, k,
                   live>>

\* MarketSimulator.execute_orders, one order of its loop
SettleOrder ==
    /\ engine = "atlas" /\ pc = "settle" /\ orders_to_process # <<>>
    /\ LET order == Head(orders_to_process)
           r == Settlement(order)
       IN  /\ shares' = [shares EXCEPT ![order.id] = r.shares]
           /\ cash' = [cash EXCEPT ![order.id] = r.cash]
           /\ trade_log' = trade_log \o r.fills
           /\ last_order' = [id |-> order.id, symbol |-> "", side |-> order.side,
                             qty |-> order.qty, price |-> execution_price(order.side),
                             risk |-> "none", settled |-> r.fills # <<>>]
    /\ orders_to_process' = Tail(orders_to_process)
    /\ pc' = IF Tail(orders_to_process) = <<>> THEN "record" ELSE "settle"
    /\ UNCHANGED <<engine, rows, analysis, decided, initial_capital, stop_loss_price, take_profit_price,
                   price, history, i, order_queue, equity_curve, k, live>>

\* A faulty end of the loop body that records the cash of the book only:
RecordEquity_of_cash_only ==
    /\ engine = "atlas" /\ pc = "record"
    /\ equity_curve' = Append(equity_curve,
                              [date |-> i, equity |-> get_total_equity(0)])
    /\ i' = i + 1
    /\ pc' = "run"
    /\ UNCHANGED <<engine, rows, analysis, decided, initial_capital, cash, last_order, shares, stop_loss_price,
                   take_profit_price, price, history, order_queue,
                   orders_to_process, trade_log, k, live>>

\* the end of the loop body: one point of the equity curve
RecordEquity ==
    /\ engine = "atlas" /\ pc = "record"
    /\ equity_curve' = Append(equity_curve,
                              [date |-> i, equity |-> get_total_equity(price)])
    /\ i' = i + 1
    /\ pc' = "run"
    /\ UNCHANGED <<engine, rows, analysis, decided, initial_capital, cash, last_order, shares, stop_loss_price,
                   take_profit_price, price, history, order_queue,
                   orders_to_process, trade_log, k, live>>

\* the data is exhausted: run returns
RunReturns ==
    /\ engine = "atlas" /\ pc = "run" /\ i = rows
    /\ pc' = "done"
    /\ UNCHANGED <<engine, rows, analysis, decided, initial_capital, cash, last_order, backtest, live>>

---------------------------------------------------------------------------
(* ChiefInvestmentOfficer.on_market_data *)

\* the state a call of submit_order leaves; the observer notes whether the
\* Risk Manager was consulted while the drawdown exceeded the limit
Submit(r) ==
    /\ cash' = r.cash
    /\ positions' = r.positions
    /\ trade_count' = r.trade_count
    /\ live_trades' = r.live_trades
    /\ portfolio_file' = r.portfolio_file
    /\ alerts' = r.alerts
    /\ is_drawdown_breached' = r.is_drawdown_breached
    /\ last_order' = r.last_order
    /\ breach_seen' = (breach_seen \/ (r.last_order.risk # "none" /\ DrawdownExceeded))

NoSubmit ==
    UNCHANGED <<cash, positions, trade_count, live_trades, portfolio_file, alerts,
                is_drawdown_breached, last_order, breach_seen>>

Exits(s, symbol, sl, tp) ==
    /\ stop_loss_prices' = [stop_loss_prices EXCEPT ![s][symbol] = sl]
    /\ take_profit_prices' = [take_profit_prices EXCEPT ![s][symbol] = tp]

\* the pair at the head of todo is done
PairDone ==
    /\ todo' = Tail(todo)
    /\ pc' = IF Tail(todo) = <<>> THEN "idle" ELSE "pairs"
    /\ ticks' = IF Tail(todo) = <<>> THEN NoTicks ELSE ticks

\* a tick batch arrives: the last known prices are updated
OnMarketData ==
    /\ engine = "citadel" /\ pc = "idle" /\ batches < MaxBatches
    /\ \E batch \in [Symbols -> Ticks] :
         LET prices == [symbol \in Symbols |->
                          IF batch[symbol].present THEN batch[symbol].price
                          ELSE last_known_prices[symbol]]
         IN  /\ last_known_prices' = prices
             /\ todo' = Pairs(batch)
             /\ ticks' = IF Pairs(batch) = <<>> THEN NoTicks ELSE batch
             /\ pc' = IF Pairs(batch) = <<>> THEN "idle" ELSE "pairs"
             /\ session_peak' =
                    Max({session_peak, cio_get_total_equity(cash, positions, prices)})
    /\ batches' = batches + 1
    /\ UNCHANGED <<engine, rows, analysis, decided, initial_capital, cash, last_order, backtest, positions,
                   stop_loss_prices, take_profit_prices, trade_count, current_value,
                   peak_equity, is_drawdown_breached, portfolio_file, live_trades,
                   alerts, breach_seen>>

\* one (symbol, strategy) pair of the batch: exits first, then the strategy
ProcessPair ==
    /\ engine = "citadel" /\ pc = "pairs" /\ todo # <<>>
    /\ LET symbol == Head(todo)[1]
           s == Head(todo)[2]
           tick == ticks[symbol]
           current_price == tick.price
           held == positions[s][symbol]
           stop_loss == /\ held > 0
                        /\ stop_loss_prices[s][symbol] > 0
                        /\ current_price * 1000 <= stop_loss_prices[s][symbol]
           take_profit == /\ held > 0
                          /\ take_profit_prices[s][symbol] > 0
                          /\ current_price * 1000 >= take_profit_prices[s][symbol]
       IN
       IF stop_loss \/ take_profit
       THEN /\ \E io \in IOOutcomes : Submit(cio_submit_order(s, symbol, "sell", held, io))
            /\ Exits(s, symbol, 0, 0)
            /\ decided' = FALSE
       ELSE \E view \in LiveViews :
              LET d == live_decide_action(s, symbol, tick, view)
                  quantity == IF current_price > 0
                              THEN (cash[s] * live_risk_per_trade) \div (100 * current_price)
                              ELSE 0
              IN
              /\ decided' = TRUE
              /\ IF d.signal = Signal.BUY
                 THEN /\ Exits(s, symbol, d.stop_loss_price, d.take_profit_price)
                      /\ IF quantity > 0
                         THEN \E io \in IOOutcomes :
                                Submit(cio_submit_order(s, symbol, "buy", quantity, io))
                         ELSE NoSubmit
                 ELSE IF d.signal = Signal.SELL /\ held > 0
                 THEN /\ \E io \in IOOutcomes :
                           Submit(cio_submit_order(s, symbol, "sell", held, io))
                      /\ Exits(s, symbol, 0, 0)
                 ELSE /\ NoSubmit
                      /\ Exits(s, symbol, d.stop_loss_price, d.take_profit_price)
    /\ PairDone
    /\ UNCHANGED <<engine, rows, analysis, initial_capital, backtest, last_known_prices,
                   current_value, peak_equity, batches, session_peak>>

\* the process is started again: a new RiskManager and ChiefInvestmentOfficer
\* are constructed over the files the last one left
Restart ==
    /\ engine = "citadel" /\ pc = "idle"
    /\ LET new == cio_init(portfolio_file) IN
       /\ positions' = new.positions
       /\ last_known_prices' = new.last_known_prices
       /\ current_value' = new.current_value
       /\ peak_equity' = new.peak_equity
       /\ session_peak' = new.peak_equity
       /\ cash' = new.cash
    /\ stop_loss_prices' = ZeroBook
    /\ take_profit_prices' = ZeroBook
    /\ trade_count' = 0
    /\ is_drawdown_breached' = FALSE
    /\ alerts' = <<>>
    /\ breach_seen' = FALSE
    /\ last_order' = NoOrder
    /\ decided' = FALSE
    /\ UNCHANGED <<engine, rows, analysis, initial_capital, pc, backtest, portfolio_file, live_trades,
                   ticks, todo, batches>>

---------------------------------------------------------------------------
(* v13.0 ChiefInvestmentOfficer.on_market_data *)

V13OnMarketData ==
    /\ engine = "v13" /\ pc = "idle" /\ batches < MaxBatches
    /\ \E batch \in [Symbols -> Ticks] :
         LET prices == [symbol \in Symbols |->
                          IF batch[symbol].present THEN batch[symbol].price
                          ELSE last_known_prices[symbol]]
             value == v13_get_total_equity(cash, positions, prices)
         IN  /\ last_known_prices' = prices
             /\ current_value' = value
             /\ peak_equity' = Max({peak_equity, value})
             /\ session_peak' = Max({session_peak, value})
             /\ todo' = Pairs(batch)
             /\ ticks' = IF Pairs(batch) = <<>> THEN NoTicks ELSE batch
             /\ pc' = IF Pairs(batch) = <<>> THEN "idle" ELSE "pairs"
    /\ batches' = batches + 1
    /\ UNCHANGED <<engine, rows, analysis, decided, initial_capital, cash, last_order, backtest, positions,
                   stop_loss_prices, take_profit_prices, trade_count,
                   is_drawdown_breached, portfolio_file, live_trades, alerts,
                   breach_seen>>

V13ProcessPair ==
    /\ engine = "v13" /\ pc = "pairs" /\ todo # <<>>
    /\ LET symbol == Head(todo)[1]
           s == Head(todo)[2]
           tick == ticks[symbol]
           current_price == tick.price
           held == positions[s][symbol]
       IN
       IF held > 0 /\ current_price * 1000 <= stop_loss_prices[s][symbol]
       THEN /\ Submit(v13_submit_order(s, symbol, "sell", held))
            /\ Exits(s, symbol, 0, 0)
            /\ decided' = FALSE
       ELSE \E view \in LiveViews :
              LET d == v13_decide_action(s, symbol, tick, view)
                  qty == IF current_price > 0
                         THEN (cash[s] * v13_risk_per_trade) \div (100 * current_price)
                         ELSE 0
              IN
              /\ decided' = TRUE
              /\ Exits(s, symbol, d.stop_loss_price, d.take_profit_price)
              /\ IF d.signal = Signal.BUY
                 THEN Submit(v13_submit_order(s, symbol, "buy", qty))
                 ELSE IF d.signal = Signal.SELL
                 THEN Submit(v13_submit_order(s, symbol, "sell", held))
                 ELSE NoSubmit
    /\ PairDone
    /\ UNCHANGED <<engine, rows, analysis, initial_capital, backtest, last_known_prices,
                   current_value, peak_equity, batches, session_peak>>

\* the process is started again: nothing is kept from the last one
V13Restart ==
    /\ engine = "v13" /\ pc = "idle"
    /\ positions' = ZeroBook
    /\ last_known_prices' = [symbol \in Symbols |-> 0]
    /\ current_value' = V13_INITIAL_CAPITAL
    /\ peak_equity' = V13_INITIAL_CAPITAL
    /\ session_peak' = V13_INITIAL_CAPITAL
    /\ cash' = v13_rebalance_capital
    /\ stop_loss_prices' = ZeroBook
    /\ take_profit_prices' = ZeroBook
    /\ trade_count' = 0
    /\ is_drawdown_breached' = FALSE
    /\ alerts' = <<>>
    /\ breach_seen' = FALSE
    /\ last_order' = NoOrder
    /\ decided' = FALSE
    /\ UNCHANGED <<engine, rows, analysis, initial_capital, pc, backtest, portfolio_file, live_trades,
                   ticks, todo, batches>>

---------------------------------------------------------------------------
(* v13.0 MarketSimulator.execute_orders ("Quant T py"): one flat cost rate, *)
(* fills without a cost field, the queue cleared after the loop            *)

\* FirmConfig.BacktestParameters
V13_TRANSACTION_COST_BPS == 5
V13_SLIPPAGE_BPS == 10

v13_Settlement(order) ==
    LET strategy == order.id
        exec_price == IF order.side = "buy"
                      THEN (price * (10000 + V13_SLIPPAGE_BPS)) \div 10000
                      ELSE (price * (10000 - V13_SLIPPAGE_BPS)) \div 10000
        trade_value == order.qty * exec_price
        transaction_cost == (trade_value * V13_TRANSACTION_COST_BPS) \div 10000
        fill == [id |-> order.id, side |-> order.side, qty |-> order.qty,
                 price |-> exec_price]
    IN  IF order.side = "buy" /\ cash[strategy] >= trade_value + transaction_cost
        THEN [shares |-> shares[strategy] + order.qty,
              cash |-> cash[strategy] - (trade_value + transaction_cost),
              fills |-> <<fill>>]
        ELSE IF order.side = "sell" /\ shares[strategy] >= order.qty
        THEN [shares |-> shares[strategy] - order.qty,
              cash |-> cash[strategy] + (trade_value - transaction_cost),
              fills |-> <<fill>>]
        ELSE [shares |-> shares[strategy], cash |-> cash[strategy], fills |-> <<>>]

\* the loop is entered over the queue itself
V13ExecuteOrders ==
    /\ engine = "atlas_v13" /\ pc = "exec"
    /\ IF order_queue = <<>>
       THEN pc' = "record" /\ UNCHANGED orders_to_process
       ELSE pc' = "settle" /\ orders_to_process' = order_queue
    /\ UNCHANGED <<engine, rows, analysis, decided, initial_capital, cash, last_order, shares, stop_loss_price,
                   take_profit_price, price, history, i, order_queue, trade_log,
                   equity_curve, k, live>>

\* one order of the loop; after the last one the queue is cleared
V13SettleOrder ==
    /\ engine = "atlas_v13" /\ pc = "settle" /\ orders_to_process # <<>>
    /\ LET order == Head(orders_to_process)
           r == v13_Settlement(order)
       IN  /\ shares' = [shares EXCEPT ![order.id] = r.shares]
           /\ cash' = [cash EXCEPT ![order.id] = r.cash]
           /\ trade_log' = trade_log \o r.fills
           /\ last_order' = [id |-> order.id, symbol |-> "", side |-> order.side,
                             qty |-> order.qty,
                             price |-> IF r.fills = <<>> THEN 0 ELSE r.fills[1].price,
                             risk |-> "none", settled |-> r.fills # <<>>]
    /\ orders_to_process' = Tail(orders_to_process)
    /\ IF Tail(orders_to_process) = <<>>
       THEN pc' = "record" /\ order_queue' = <<>>
       ELSE pc' = "settle" /\ order_queue' = order_queue
    /\ UNCHANGED <<engine, rows, analysis, decided, initial_capital, stop_loss_price, take_profit_price,
                   price, history, i, equity_curve, k, live>>

---------------------------------------------------------------------------
(* v13.0 PortfolioManager and MarketSimulator.run ("Quant T py"): no       *)
(* warm-up, an unbounded history, a stop-loss and no take-profit           *)

\* AtlasStrategy.risk_per_trade (percent) and stop_loss_pct (per mille)
v13_atlas_risk_per_trade == 2
v13_atlas_stop_loss_pct == 20

v13_StrategyConfig ==
    [Trend         |-> [SHORT_WINDOW |-> 40, LONG_WINDOW |-> 100],
     MeanReversion |-> [WINDOW |-> 20, STD_DEV |-> 2]]

\* dir is the comparison of the averages (Trend) or of the price with the
\* bands (MeanReversion); "none" also stands for a zero deviation
v13_atlas_decide_action(s, dir) ==
    LET window == IF s = "Trend" THEN v13_StrategyConfig[s].LONG_WINDOW
                  ELSE v13_StrategyConfig[s].WINDOW
    IN  IF Len(history) < window THEN Decision(Signal.HOLD, 0, stop_loss_price[s], 0)
        ELSE IF dir = "enter" /\ shares[s] = 0
        THEN Decision(Signal.BUY, 0, price * (1000 - v13_atlas_stop_loss_pct), 0)
        ELSE IF dir = "exit" /\ shares[s] > 0
        THEN Decision(Signal.SELL, 0, 0, 0)
        ELSE Decision(Signal.HOLD, 0, stop_loss_price[s], 0)

\* the head of the loop of run: the close is appended to the history
V13NextBar ==
    /\ engine = "atlas_v13" /\ pc = "run" /\ i < rows
    /\ \E close \in Prices : price' = close
    /\ history' = Append(history, i)
    /\ pc' = "ops" /\ k' = 1
    /\ UNCHANGED <<engine, rows, analysis, decided, initial_capital, cash, last_order, shares,
                   stop_loss_price, take_profit_price, i, order_queue,
                   orders_to_process, trade_log, equity_curve, live>>

\* run_daily_operations, one strategy of its loop
V13DailyOperation ==
    /\ engine = "atlas_v13" /\ pc = "ops" /\ k <= Len(StrategyOrder)
    /\ LET s == StrategyOrder[k] IN
       IF shares[s] > 0 /\ price * 1000 <= stop_loss_price[s]
       THEN /\ order_queue' = submit_order(order_queue, s, "sell", shares[s])
            /\ stop_loss_price' = [stop_loss_price EXCEPT ![s] = 0]
            /\ decided' = FALSE
       ELSE \E dir \in {"enter", "exit", "none"} :
              LET d == v13_atlas_decide_action(s, dir)
                  trade_capital == (get_equity(s, price) * v13_atlas_risk_per_trade) \div 100
                  qty_to_buy == IF price > 0 THEN trade_capital \div price ELSE 0
              IN
              /\ decided' = TRUE
              /\ stop_loss_price' = [stop_loss_price EXCEPT ![s] = d.stop_loss_price]
              /\ order_queue' =
                     IF d.signal = Signal.BUY
                     THEN submit_order(order_queue, s, "buy", qty_to_buy)
                     ELSE IF d.signal = Signal.SELL
                     THEN submit_order(order_queue, s, "sell", shares[s])
                     ELSE order_queue
    /\ k' = k + 1
    /\ pc' = IF k = Len(StrategyOrder) THEN "exec" ELSE "ops"
    /\ UNCHANGED <<engine, rows, analysis, initial_capital, cash, last_order, shares, take_profit_price,
                   price, history, i, orders_to_process, trade_log, equity_curve, live>>

\* the end of the loop body: one point of the equity curve
V13RecordEquity ==
    /\ engine = "atlas_v13" /\ pc = "record"
    /\ equity_curve' = Append(equity_curve,
                              [date |-> i, equity |-> get_total_equity(price)])
    /\ i' = i + 1
    /\ pc' = "run"
    /\ UNCHANGED <<engine, rows, analysis, decided, initial_capital, cash, last_order, shares,
                   stop_loss_price, take_profit_price, price, history, order_queue,
                   orders_to_process, trade_log, k, live>>

\* the data is exhausted: run returns
V13RunReturns ==
    /\ engine = "atlas_v13" /\ pc = "run" /\ i = rows
    /\ pc' = "done"
    /\ UNCHANGED <<engine, rows, analysis, decided, initial_capital, cash, last_order, backtest, live>>

---------------------------------------------------------------------------
(* execute_orders called on any book and any queue: submit_order is public *)
(* and takes any strategy, side and quantity                               *)

ApiCash == {10020, 30050}
ApiShares == {0, 2}
ApiQuantities == {1, 3}

ApiOrders == {Order(id, side, qty) :
                 id \in Strategies, side \in {"buy", "sell"}, qty \in ApiQuantities}

ApiQueues == {<<>>} \cup {<<a>> : a \in ApiOrders}
                    \cup {<<a, b>> : a \in ApiOrders, b \in ApiOrders}

ExecuteOrdersInit ==
    /\ engine \in {"atlas", "atlas_v13"}
    /\ rows = IF engine = "atlas" THEN MaxBars ELSE MaxV13Bars
    /\ initial_capital \in FirmCapitals
    /\ last_order = NoOrder
    /\ decided = FALSE
    /\ AnalysisFresh
    /\ LiveFresh
    /\ current_value = 0 /\ peak_equity = 0 /\ session_peak = 0
    /\ cash \in [Strategies -> ApiCash]
    /\ shares \in [Strategies -> ApiShares]
    /\ stop_loss_price = [s \in Strategies |-> 0]
    /\ take_profit_price = [s \in Strategies |-> 0]
    /\ price \in Prices
    /\ history = <<>>
    /\ i = max_warmup_window - 1
    /\ order_queue \in ApiQueues
    /\ orders_to_process = <<>>
    /\ trade_log = <<>>
    /\ equity_curve = <<>>
    /\ k = Len(StrategyOrder) + 1
    /\ pc = "exec"

ExecuteOrdersNext ==
    \/ ExecuteOrders
    \/ SettleOrder
    \/ V13ExecuteOrders
    \/ V13SettleOrder

ExecuteOrdersSpec == ExecuteOrdersInit /\ [][ExecuteOrdersNext]_vars

---------------------------------------------------------------------------
(* _rebalance_capital called again on a book that has traded: the current  *)
(* PortfolioManager and ChiefInvestmentOfficer and the v13.0               *)
(* ChiefInvestmentOfficer                                                  *)

\* the v13.0 split, of whatever the strategies are worth when it is called
v13_rebalance_capital_of(c, pos, prices) ==
    LET total_equity == v13_get_total_equity(c, pos, prices)
    IN  [s \in Strategies |-> total_equity \div Cardinality(Strategies)]

\* quantities a live strategy may hold, and what it paid for them
HeldQuantities == {0, 4, 10}
PaidFor(quantity) == quantity * 25

RebalanceInit ==
    /\ engine \in {"atlas", "citadel", "v13"}
    /\ rows = IF engine = "atlas" THEN MaxBars ELSE 0
    /\ initial_capital \in (IF engine = "atlas" THEN FirmCapitals
                            ELSE IF engine = "citadel" THEN {INITIAL_CAPITAL}
                            ELSE {V13_INITIAL_CAPITAL})
    /\ last_order = NoOrder
    /\ decided = FALSE
    /\ AnalysisFresh
    /\ IF engine = "atlas"
       THEN /\ LiveFresh
            /\ shares \in [Strategies -> ApiShares]
            /\ cash \in [Strategies -> ApiCash]
            /\ price \in Prices
       ELSE /\ positions \in [Strategies -> [Symbols -> HeldQuantities]]
            /\ cash = [s \in Strategies |->
                         initial_capital \div Cardinality(Strategies)
                         - PaidFor(positions[s][SymbolOrder[1]])]
            /\ last_known_prices \in [Symbols -> LivePrices \cup {0}]
            /\ shares = [s \in Strategies |-> 0]
            /\ price = 0
            /\ stop_loss_prices = ZeroBook /\ take_profit_prices = ZeroBook
            /\ trade_count = 0 /\ is_drawdown_breached = FALSE
            /\ portfolio_file = NoLedger /\ live_trades = <<>> /\ alerts = <<>>
            /\ ticks = NoTicks /\ todo = <<>> /\ batches = 0 /\ breach_seen = FALSE
    /\ stop_loss_price = [s \in Strategies |-> 0]
    /\ take_profit_price = [s \in Strategies |-> 0]
    /\ history = <<>> /\ i = 0 /\ k = 1
    /\ order_queue = <<>> /\ orders_to_process = <<>>
    /\ trade_log = <<>> /\ equity_curve = <<>>
    /\ current_value = 0 /\ peak_equity = 0 /\ session_peak = 0
    /\ pc = "book"

\* how often _rebalance_capital was called on the book
Rebalanced ==
    /\ pc \in {"book", "split"}
    /\ pc' = IF pc = "book" THEN "split" ELSE "split again"

\* PortfolioManager._rebalance_capital: set_capital also empties the position
RebalanceCapital ==
    /\ engine = "atlas" /\ Rebalanced
    /\ cash' = _rebalance_capital(initial_capital)
    /\ shares' = [s \in Strategies |-> 0]
    /\ UNCHANGED <<engine, rows, analysis, decided, initial_capital, last_order, stop_loss_price,
                   take_profit_price, price, history, i, order_queue,
                   orders_to_process, trade_log, equity_curve, k, live>>

\* ChiefInvestmentOfficer._rebalance_capital
CioRebalanceCapital ==
    /\ engine = "citadel" /\ Rebalanced
    /\ cash' = cio_rebalance_capital(initial_capital)
    /\ UNCHANGED <<engine, rows, analysis, decided, initial_capital, last_order, backtest, live>>

\* v13.0 ChiefInvestmentOfficer._rebalance_capital
V13RebalanceCapital ==
    /\ engine = "v13" /\ Rebalanced
    /\ cash' = v13_rebalance_capital_of(cash, positions, last_known_prices)
    /\ UNCHANGED <<engine, rows, analysis, decided, initial_capital, last_order, backtest, live>>

RebalanceNext ==
    \/ RebalanceCapital
    \/ CioRebalanceCapital
    \/ V13RebalanceCapital

RebalanceSpec == RebalanceInit /\ [][RebalanceNext]_vars

---------------------------------------------------------------------------
(* TradeAnalyzer.calculate_round_trip_pnl over any list of fills.  The      *)
(* deques of open buys hold the fills of the list themselves, so what the  *)
(* matching subtracts from an open buy is subtracted in the list.          *)

\* fills a list may hold
MaxFills == 3

ApiFills ==
    [id : Strategies, side : {"buy"}, qty : {5, 10}, price : {100, 110}, cost : {0}]
    \cup [id : Strategies, side : {"sell"}, qty : {5, 12}, price : {110, 120},
          cost : {0}]

ApiLogs == UNION {[1..n -> ApiFills] : n \in 0..MaxFills}

\* A faulty matching that takes the newest open buy first:
RECURSIVE match_newest_first(_, _, _, _, _)
match_newest_first(raw_trades, open, sell_qty, sell_price, rt_pnl) ==
    IF sell_qty > 0 /\ open # <<>>
    THEN LET buy_trade == open[Len(open)]
             bought == raw_trades[buy_trade].qty
             match_qty == IF sell_qty < bought THEN sell_qty ELSE bought
             trades == [raw_trades EXCEPT ![buy_trade].qty = bought - match_qty]
         IN  match_newest_first(trades,
                   IF bought - match_qty <= 0 THEN SubSeq(open, 1, Len(open) - 1)
                   ELSE open,
                   sell_qty - match_qty, sell_price,
                   rt_pnl + (sell_price - raw_trades[buy_trade].price) * match_qty)
    ELSE [raw_trades |-> raw_trades, open |-> open, rt_pnl |-> rt_pnl]

\* the while loop of one sell: the oldest open buy first
RECURSIVE match(_, _, _, _, _)
match(raw_trades, open, sell_qty, sell_price, rt_pnl) ==
    IF sell_qty > 0 /\ open # <<>>
    THEN LET buy_trade == open[1]
             bought == raw_trades[buy_trade].qty
             match_qty == IF sell_qty < bought THEN sell_qty ELSE bought
             trades == [raw_trades EXCEPT ![buy_trade].qty = bought - match_qty]
         IN  match(trades,
                   IF bought - match_qty <= 0 THEN Tail(open) ELSE open,
                   sell_qty - match_qty, sell_price,
                   rt_pnl + (sell_price - raw_trades[buy_trade].price) * match_qty)
    ELSE [raw_trades |-> raw_trades, open |-> open, rt_pnl |-> rt_pnl]

calculate_round_trip_pnl(trades) ==
    LET RECURSIVE Loop(_, _, _, _)
        Loop(raw_trades, n, open, pnl) ==
            IF n > Len(raw_trades)
            THEN [raw_trades |-> raw_trades, open_buys |-> open, pnl_list |-> pnl]
            ELSE LET trade == raw_trades[n] IN
                 IF trade.side = "buy"
                 THEN Loop(raw_trades, n + 1,
                           [open EXCEPT ![trade.id] = Append(@, n)], pnl)
                 ELSE IF open[trade.id] = <<>>
                 THEN Loop(raw_trades, n + 1, open, pnl)
                 ELSE LET r == match(raw_trades, open[trade.id], trade.qty,
                                     trade.price, 0)
                      IN  Loop(r.raw_trades, n + 1,
                               [open EXCEPT ![trade.id] = r.open],
                               IF r.rt_pnl # 0 THEN Append(pnl, r.rt_pnl) ELSE pnl)
    IN  Loop(trades, 1, [s \in Strategies |-> <<>>], <<>>)

RoundTripInit ==
    /\ engine = "atlas"
    /\ rows = MaxBars
    /\ initial_capital \in FirmCapitals
    /\ cash = _rebalance_capital(initial_capital)
    /\ last_order = NoOrder
    /\ decided = FALSE
    /\ LiveFresh
    /\ current_value = 0 /\ peak_equity = 0 /\ session_peak = 0
    /\ shares = [s \in Strategies |-> 0]
    /\ stop_loss_price = [s \in Strategies |-> 0]
    /\ take_profit_price = [s \in Strategies |-> 0]
    /\ price = 0 /\ history = <<>> /\ i = 0 /\ k = 1
    /\ order_queue = <<>> /\ orders_to_process = <<>> /\ equity_curve = <<>>
    /\ trade_log \in ApiLogs
    /\ pnl_list = <<>>
    /\ open_buys = [s \in Strategies |-> <<>>]
    /\ data = <<>> /\ combos_to_test = <<>> /\ results = <<>>
    /\ pc = "log"

\* TradeAnalyzer(trade_log).calculate_round_trip_pnl(), a first and a second time
CalculateRoundTripPnl ==
    /\ pc \in {"log", "analysed"}
    /\ pc' = IF pc = "log" THEN "analysed" ELSE "analysed again"
    /\ LET r == calculate_round_trip_pnl(trade_log) IN
       /\ trade_log' = r.raw_trades
       /\ pnl_list' = r.pnl_list
       /\ open_buys' = r.open_buys
    /\ UNCHANGED <<engine, rows, initial_capital, cash, last_order, decided, shares,
                   stop_loss_price, take_profit_price, price, history, i,
                   order_queue, orders_to_process, equity_curve, k, live,
                   data, combos_to_test, results>>

RoundTripSpec == RoundTripInit /\ [][CalculateRoundTripPnl]_vars

---------------------------------------------------------------------------
(* ParameterOptimizer.run: one backtest per sampled parameter combination.  *)
(* A backtest is kept as what it does to the book it is given: replaying   *)
(* the rows under a combination adds a P&L, drawn with the data, to the    *)
(* first strategy's cash, logs a fill when it traded and records the       *)
(* equity.                                                                 *)

\* BacktestParameters.OPTIMIZATION_TRIALS: the trials of one run (the
\* configuration asks for 24 of the 1024 combinations of the full grid)
OPTIMIZATION_TRIALS == 2

\* the grid: the windows of the two families
all_combos == [trend_sw : {20, 40}, mr_w : {20, 30}]

\* random.sample(all_combos, n): n different combinations in any order
RECURSIVE sample(_, _)
sample(combos, n) ==
    IF n = 0 \/ combos = {} THEN {<<>>}
    ELSE UNION {{<<c>> \o rest : rest \in sample(combos \ {c}, n - 1)} : c \in combos}

\* what the rows may yield under a combination
Yields == {-100, 0, 300}

OptimizerInit ==
    /\ engine = "atlas"
    /\ rows = MaxBars
    /\ initial_capital \in FirmCapitals
    /\ cash = [s \in Strategies |-> 0]
    /\ last_order = NoOrder
    /\ decided = FALSE
    /\ LiveFresh
    /\ current_value = 0 /\ peak_equity = 0 /\ session_peak = 0
    /\ BacktestFresh
    /\ pnl_list = <<>>
    /\ open_buys = [s \in Strategies |-> <<>>]
    /\ data \in [all_combos -> Yields]
    /\ combos_to_test \in sample(all_combos, OPTIMIZATION_TRIALS)
    /\ results = <<>>
    /\ pc = "loop"

\* A faulty loop that builds its PortfolioManager once and hands it to every
\* MarketSimulator:
ConstructTrial_keeping_allocator ==
    /\ pc = "loop" /\ combos_to_test # <<>>
    /\ cash' = IF results = <<>> THEN _rebalance_capital(initial_capital) ELSE cash
    /\ price' = 0 /\ history' = <<>> /\ i' = 0
    /\ order_queue' = <<>> /\ orders_to_process' = <<>>
    /\ trade_log' = <<>> /\ equity_curve' = <<>>
    /\ pc' = "constructed"
    /\ UNCHANGED <<engine, rows, initial_capital, last_order, decided, shares,
                   stop_loss_price, take_profit_price, k, live, analysis>>

\* the head of the loop body: a new PortfolioManager and a new MarketSimulator
ConstructTrial ==
    /\ pc = "loop" /\ combos_to_test # <<>>
    /\ cash' = _rebalance_capital(initial_capital)
    /\ shares' = [s \in Strategies |-> 0]
    /\ stop_loss_price' = [s \in Strategies |-> 0]
    /\ take_profit_price' = [s \in Strategies |-> 0]
    /\ price' = 0 /\ history' = <<>> /\ i' = 0
    /\ order_queue' = <<>> /\ orders_to_process' = <<>>
    /\ trade_log' = <<>> /\ equity_curve' = <<>>
    /\ pc' = "constructed"
    /\ UNCHANGED <<engine, rows, initial_capital, last_order, decided, k, live, analysis>>

\* market_simulator.run()
RunTrial ==
    /\ pc = "constructed"
    /\ LET yield == data[Head(combos_to_test)]
           first == StrategyOrder[1]
           book == [cash EXCEPT ![first] = @ + yield]
           RECURSIVE Sum(_)
           Sum(n) == IF n = 0 THEN 0 ELSE Sum(n - 1) + book[StrategyOrder[n]]
       IN  /\ cash' = book
           /\ trade_log' = IF yield = 0 THEN trade_log
                           ELSE Append(trade_log,
                                       [id |-> first, side |-> "sell", qty |-> 1,
                                        price |-> 0, cost |-> 0])
           /\ equity_curve' = Append(equity_curve,
                                     [date |-> Len(equity_curve),
                                      equity |-> Sum(Len(StrategyOrder))])
    /\ pc' = "ran"
    /\ UNCHANGED <<engine, rows, initial_capital, last_order, decided, shares,
                   stop_loss_price, take_profit_price, price, history, i,
                   order_queue, orders_to_process, k, live, analysis>>

\* the metrics of the trial are appended to the results
RecordTrial ==
    /\ pc = "ran"
    /\ results' = Append(results,
                         [combo |-> Head(combos_to_test),
                          final_equity |-> IF equity_curve = <<>> THEN 0
                                           ELSE equity_curve[Len(equity_curve)].equity,
                          total_trades |-> Len(trade_log)])
    /\ combos_to_test' = Tail(combos_to_test)
    /\ pc' = "loop"
    /\ UNCHANGED <<engine, rows, initial_capital, cash, last_order, decided, backtest, live,
                   pnl_list, open_buys, data>>

\* the backtest or the metrics of the trial raise: nothing in run catches it
TrialRaises ==
    /\ pc \in {"constructed", "ran"}
    /\ pc' = "raised"
    /\ UNCHANGED <<engine, rows, initial_capital, cash, last_order, decided, backtest, live,
                   analysis>>

\* the combinations are exhausted: run returns the results
OptimizerReturns ==
    /\ pc = "loop" /\ combos_to_test = <<>>
    /\ pc' = "returned"
    /\ UNCHANGED <<engine, rows, initial_capital, cash, last_order, decided, backtest, live,
                   analysis>>

OptimizerNext ==
    \/ ConstructTrial
    \/ RunTrial
    \/ RecordTrial
    \/ TrialRaises
    \/ OptimizerReturns

OptimizerSpec == OptimizerInit /\ [][OptimizerNext]_vars

---------------------------------------------------------------------------
(* PerformanceAnalyzer.calculate_metrics on an equity curve.  Returns are  *)
(* kept in per mille, the Sharpe ratio in thousandths; the other metrics   *)
(* of the dictionary are not kept.                                         *)

\* points of an equity curve
MaxCurve == 4

\* FirmConfig.RISK_FREE_RATE, in per mille
RISK_FREE_RATE == 70

\* total equity values a curve may hold
EquityValues == {1000, 1100, 1210}

EquityCurves ==
    UNION {{[j \in 1..n |-> [date |-> j, equity |-> c[j]]] : c \in [1..n -> EquityValues]}
             : n \in 0..MaxCurve}

\* PerformanceAnalyzer.__init__: equity_curve.pct_change().dropna()
pct_change(curve) ==
    [j \in 1..(IF Len(curve) = 0 THEN 0 ELSE Len(curve) - 1) |->
        ((curve[j + 1].equity - curve[j].equity) * 1000) \div curve[j].equity]

SeriesSum(r) ==
    LET RECURSIVE Sum(_)
        Sum(n) == IF n = 0 THEN 0 ELSE Sum(n - 1) + r[n]
    IN  Sum(Len(r))

SeriesSumOfSquares(r) ==
    LET RECURSIVE Sum(_)
        Sum(n) == IF n = 0 THEN 0 ELSE Sum(n - 1) + r[n] * r[n]
    IN  Sum(Len(r))

sqrt(x) == CHOOSE root \in 0..10000 : root * root <= x /\ x < (root + 1) * (root + 1)

\* returns.mean() * 252
annualized_returns(r) == (SeriesSum(r) * 252) \div Len(r)

\* returns.std() * np.sqrt(252), the sample deviation (n - 1 in the divisor)
annualized_volatility(r) ==
    LET n == Len(r)
        variance == (n * SeriesSumOfSquares(r) - SeriesSum(r) * SeriesSum(r))
                        \div (n * (n - 1))
    IN  sqrt(variance * 252)

\* A faulty calculate_metrics that leaves the risk-free rate out:
calculate_metrics_without_risk_free_rate(curve) ==
    LET returns == pct_change(curve) IN
    IF Len(returns) < 2 THEN [sharpe |-> 0]
    ELSE [sharpe |-> IF annualized_volatility(returns) > 0
                     THEN (annualized_returns(returns) * 1000)
                              \div annualized_volatility(returns)
                     ELSE 0]

calculate_metrics(curve) ==
    LET returns == pct_change(curve) IN
    IF Len(returns) < 2 THEN [sharpe |-> 0]
    ELSE [sharpe |-> IF annualized_volatility(returns) > 0
                     THEN ((annualized_returns(returns) - RISK_FREE_RATE) * 1000)
                              \div annualized_volatility(returns)
                     ELSE 0]

MetricsInit ==
    /\ engine = "atlas"
    /\ rows = MaxBars
    /\ initial_capital \in FirmCapitals
    /\ cash = _rebalance_capital(initial_capital)
    /\ last_order = NoOrder
    /\ decided = FALSE
    /\ LiveFresh
    /\ AnalysisFresh
    /\ current_value = 0 /\ peak_equity = 0 /\ session_peak = 0
    /\ shares = [s \in Strategies |-> 0]
    /\ stop_loss_price = [s \in Strategies |-> 0]
    /\ take_profit_price = [s \in Strategies |-> 0]
    /\ price = 0 /\ history = <<>> /\ i = 0 /\ k = 1
    /\ order_queue = <<>> /\ orders_to_process = <<>> /\ trade_log = <<>>
    /\ equity_curve \in EquityCurves
    /\ pc = "curve"

\* PerformanceAnalyzer(equity_curve, ...).calculate_metrics()
CalculateMetrics ==
    /\ pc = "curve"
    /\ results' = <<calculate_metrics(equity_curve)>>
    /\ pc' = "measured"
    /\ UNCHANGED <<engine, rows, initial_capital, cash, last_order, decided, backtest, live,
                   pnl_list, open_buys, data, combos_to_test>>

MetricsSpec == MetricsInit /\ [][CalculateMetrics]_vars

---------------------------------------------------------------------------
(* MarketSimulator.run, current and v13.0, over data longer than the       *)
(* history buffer, for a firm whose capital buys no share: no order is     *)
(* ever queued, so the settlement has nothing to do on any bar.            *)

\* rows of the long data
LongRunBars == 152

\* FirmConfig.FIRM_CAPITAL too small for one share
SmallCapitals == {100}

LongRunInit ==
    /\ engine \in {"atlas", "atlas_v13"}
    /\ rows = LongRunBars
    /\ initial_capital \in SmallCapitals
    /\ cash = _rebalance_capital(initial_capital)
    /\ last_order = NoOrder
    /\ decided = FALSE
    /\ AnalysisFresh
    /\ BacktestFresh
    /\ LiveFresh
    /\ current_value = 0 /\ peak_equity = 0 /\ session_peak = 0
    /\ pc = "run"

LongRunNext ==
    \/ NextBar
    \/ DailyOperation
    \/ ExecuteOrders
    \/ RecordEquity
    \/ RunReturns
    \/ V13NextBar
    \/ V13DailyOperation
    \/ V13ExecuteOrders
    \/ V13RecordEquity
    \/ V13RunReturns

LongRunSpec == LongRunInit /\ [][LongRunNext]_vars

---------------------------------------------------------------------------

Next ==
    \/ NextBar
    \/ DailyOperation
    \/ ExecuteOrders
    \/ SettleOrder
    \/ RecordEquity
    \/ RunReturns
    \/ OnMarketData
    \/ ProcessPair
    \/ Restart
    \/ V13OnMarketData
    \/ V13ProcessPair
    \/ V13Restart
    \/ V13NextBar
    \/ V13DailyOperation
    \/ V13ExecuteOrders
    \/ V13SettleOrder
    \/ V13RecordEquity
    \/ V13RunReturns

Spec == Init /\ [][Next]_vars

---------------------------------------------------------------------------
(* Properties *)

\* the fill a settled order leaves in the trade log of the backtest
FillOf(order) ==
    LET exec == execution_price(order.side)
    IN  [id |-> order.id, side |-> order.side, qty |-> order.qty, price |-> exec,
         cost |-> calculate(order.qty * exec, order.side)]

\* C1: after any sequence of bars or ticks and of submitted orders, every
\* strategy's cash is at least zero and every position is at least zero, in
\* the backtest settlement and in the live settlement.
C1_CashAndPositionsNonNegative ==
    \A s \in Strategies :
        /\ cash[s] >= 0
        /\ shares[s] >= 0
        /\ \A symbol \in Symbols : positions[s][symbol] >= 0

\* a position was bought and sold again, the sale being the last settlement
C1_Witness ==
    /\ engine = "atlas"
    /\ Len(trade_log) >= 2
    /\ last_order.side = "sell" /\ last_order.settled
    /\ shares[last_order.id] = 0

\* C2: settlement is atomic with respect to the trade log: in every step of
\* execute_orders (the current one and the v13.0 one) either a fill is appended
\* and the cash and the shares of the fill's strategy, and of it alone, are
\* moved by the fill's quantity and value, or the trade log, the cash and the
\* shares all stay as they were.
C2_SettlementAtomic ==
    [][ (engine \in {"atlas", "atlas_v13"}) =>
        (\/ /\ trade_log' = trade_log
            /\ cash' = cash
            /\ shares' = shares
         \/ /\ Len(trade_log') = Len(trade_log) + 1
            /\ SubSeq(trade_log', 1, Len(trade_log)) = trade_log
            /\ LET fill == trade_log'[Len(trade_log')]
                   moved == IF fill.side = "buy" THEN fill.qty ELSE -fill.qty
               IN  /\ fill.qty > 0
                   /\ shares' = [shares EXCEPT ![fill.id] = @ + moved]
                   /\ \A s \in Strategies \ {fill.id} : cash'[s] = cash[s]
                   /\ IF fill.side = "buy"
                      THEN cash'[fill.id] < cash[fill.id]
                      ELSE cash'[fill.id] > cash[fill.id]
                   /\ (engine = "atlas") =>
                         (cash'[fill.id] = cash[fill.id]
                             + (IF fill.side = "buy"
                                THEN -(fill.qty * fill.price + fill.cost)
                                ELSE fill.qty * fill.price - fill.cost)))
      ]_vars

\* execute_orders has returned with one order of its queue settled and the
\* last one dropped
C2_Witness ==
    /\ engine \in {"atlas", "atlas_v13"}
    /\ pc = "record"
    /\ Len(trade_log) = 1
    /\ last_order.qty > 0 /\ ~last_order.settled

\* C3: a buy whose slippage-adjusted notional plus transaction cost exceeds the
\* strategy's cash is rejected as a whole: shares, cash and trade log are
\* unchanged, no smaller quantity is filled.
C3_UnaffordableBuyRejected ==
    [][ (/\ engine = "atlas" /\ pc = "settle" /\ orders_to_process # <<>>
         /\ Head(orders_to_process).side = "buy"
         /\ LET order == Head(orders_to_process)
                trade_value == order.qty * execution_price("buy")
            IN  trade_value + calculate(trade_value, "buy") > cash[order.id])
        => (shares' = shares /\ cash' = cash /\ trade_log' = trade_log)
      ]_vars

\* a buy was rejected although the cash would have paid for one share
C3_Witness ==
    /\ engine = "atlas"
    /\ last_order.side = "buy" /\ ~last_order.settled /\ last_order.qty > 1
    /\ cash[last_order.id]
          >= execution_price("buy") + calculate(execution_price("buy"), "buy")
    /\ shares[last_order.id] = 0

\* C4: a sell settles only if the strategy holds at least the quantity; when
\* it settles the shares go down by exactly the quantity, the cash goes up by
\* exactly notional minus cost and exactly one fill is appended; when it does
\* not settle, shares, cash and trade log are unchanged.
C4_SellSettlement ==
    [][ (/\ engine = "atlas" /\ pc = "settle" /\ orders_to_process # <<>>
         /\ Head(orders_to_process).side = "sell")
        => LET order == Head(orders_to_process)
               fill == FillOf(order)
           IN  IF shares[order.id] >= order.qty
               THEN /\ shares' = [shares EXCEPT ![order.id] = @ - order.qty]
                    /\ cash' = [cash EXCEPT ![order.id] =
                                   @ + (order.qty * fill.price - fill.cost)]
                    /\ trade_log' = Append(trade_log, fill)
               ELSE shares' = shares /\ cash' = cash /\ trade_log' = trade_log
      ]_vars

\* of two sells of one queue the first was settled and the second, for more
\* than was left, was not
C4_Witness ==
    /\ engine = "atlas"
    /\ Len(trade_log) = 1 /\ trade_log[1].side = "sell"
    /\ last_order.side = "sell" /\ ~last_order.settled
    /\ last_order.qty > shares[last_order.id]

\* C5: no order outlives its cycle: when execute_orders has returned (the end
\* of a bar) and between bars the queue and the batch being settled are empty;
\* settling an order, filled or not, takes it from the batch and puts nothing
\* back into the queue, so an order that failed is never attempted again.
C5_NoOrderOutlivesItsCycle ==
    /\ [](engine = "atlas" /\ pc \in {"record", "run", "done"}
            => order_queue = <<>> /\ orders_to_process = <<>>)
    /\ [][ (engine = "atlas" /\ pc = "settle")
             => /\ orders_to_process' = Tail(orders_to_process)
                /\ order_queue' = <<>>
         ]_vars

\* a bar after the warm-up has ended with its last order dropped
C5_Witness ==
    /\ engine = "atlas"
    /\ pc = "run" /\ i > max_warmup_window
    /\ last_order.qty > 0 /\ ~last_order.settled
    /\ order_queue = <<>>

Live == {"citadel", "v13"}

\* the alerts of the session that report the drawdown breach
BreachAlerts == SelectSeq(alerts, LAMBDA subject : subject = "RISK BREACH")

\* C6: the Risk Manager moves from Normal to Drawdown-Breached when the
\* drawdown from the peak, (peak - current)/peak, exceeds DAILY_DRAWDOWN_LIMIT,
\* and stays Breached until assess_new_day: once it has checked a trade with
\* the drawdown above the limit it is Breached for the rest of the session.
C6_BreachedOnceDrawdownExceeded ==
    (engine \in Live /\ breach_seen) => is_drawdown_breached

\* C7: while the Risk Manager is Breached no buy is allowed: no buy is settled
\* by a trade check made with the drawdown above the limit, or by a later one
\* of the session.
C7_NoBuyWhileBreached ==
    [][ (/\ engine \in Live
         /\ trade_count' = trade_count + 1
         /\ last_order'.side = "buy")
        => ~breach_seen'
      ]_vars

\* C8: within one session the Alerter receives exactly one notification for
\* the transition into Breached: none before the drawdown was seen above the
\* limit, one from then on.
C8_OneAlertPerBreach ==
    engine \in Live => Len(BreachAlerts) = (IF breach_seen THEN 1 ELSE 0)

\* C9: is_trade_allowed returns false for every order, buy or sell, whose
\* notional quantity x price is above MAX_ORDER_VALUE, so no live fill has a
\* notional above it.
C9_MaxOrderValue ==
    engine = "citadel" =>
        /\ (last_order.risk # "none"
              /\ last_order.qty * last_order.price > MAX_ORDER_VALUE)
             => (last_order.risk = "denied" /\ ~last_order.settled)
        /\ last_order.settled => last_order.qty * last_order.price <= MAX_ORDER_VALUE
        /\ \A n \in 1..Len(live_trades) :
              live_trades[n].qty * live_trades[n].price <= MAX_ORDER_VALUE

\* the sale of a held position was denied for its value, after a fill
C9_Witness ==
    /\ engine = "citadel"
    /\ last_order.risk = "denied" /\ last_order.side = "sell"
    /\ last_order.qty * last_order.price > MAX_ORDER_VALUE
    /\ positions[last_order.id][last_order.symbol] = last_order.qty
    /\ live_trades # <<>>

---------------------------------------------------------------------------
(* Exits before decisions *)

\* the strategy run_daily_operations visits next, the pair on_market_data
\* visits next
InDailyOperations(s) ==
    engine \in {"atlas", "atlas_v13"} /\ pc = "ops" /\ k <= Len(StrategyOrder) /\ s = StrategyOrder[k]

InOnMarketData(s, symbol) ==
    engine \in Live /\ pc = "pairs" /\ todo # <<>> /\ Head(todo) = <<symbol, s>>

\* the sale of a whole live position went to submit_order in this step
LiveSaleSubmitted(s, symbol) ==
    /\ last_order'.id = s /\ last_order'.symbol = symbol
    /\ last_order'.side = "sell" /\ last_order'.qty = positions[s][symbol]
    /\ last_order'.price = ticks[symbol].price
    /\ last_order'.risk # "none"

---------------------------------------------------------------------------
(* The split of the capital *)

EqualSplit(c) ==
    /\ \A s \in Strategies : c[s] * Cardinality(Strategies) = initial_capital
    /\ LET RECURSIVE Sum(_)
           Sum(n) == IF n = 0 THEN 0 ELSE Sum(n - 1) + c[StrategyOrder[n]]
       IN  Sum(Len(StrategyOrder)) = initial_capital

\* C13: right after a PortfolioManager or a ChiefInvestmentOfficer is
\* constructed with N >= 1 strategies, every strategy's cash is the total
\* capital divided by N, and the cash of all strategies adds up to the total
\* capital (also when the constructor restored positions from the ledger).
C13_EqualSplitAtConstruction ==
    /\ EqualSplit(cash)
    /\ [][ (Restart \/ V13Restart) => EqualSplit(cash') ]_vars

\* a coordinator constructed over a ledger that holds a position
C13_Witness ==
    /\ engine = "citadel" /\ pc = "idle" /\ trade_count = 0
    /\ last_known_prices = [symbol \in Symbols |-> 0]
    /\ positions # ZeroBook
    /\ cash = [s \in Strategies |-> INITIAL_CAPITAL \div 2]

\* what the strategies of the engine are worth together, as the engine's own
\* get_total_equity computes it
BookEquity(c, sh, pos) ==
    IF engine = "citadel" THEN cio_get_total_equity(c, pos, last_known_prices)
    ELSE IF engine = "v13" THEN v13_get_total_equity(c, pos, last_known_prices)
    ELSE LET RECURSIVE Sum(_)
             Sum(n) == IF n = 0 THEN 0
                       ELSE Sum(n - 1) + c[StrategyOrder[n]]
                                       + sh[StrategyOrder[n]] * price
         IN  Sum(Len(StrategyOrder))

\* C14: re-splitting the capital is idempotent: a second call of
\* _rebalance_capital leaves every strategy's cash, the positions and the
\* total equity exactly as the first call left them, also when strategies
\* hold positions.
C14_RebalanceIdempotent ==
    [][ (pc = "split")
        => (/\ cash' = cash
            /\ shares' = shares
            /\ positions' = positions
            /\ BookEquity(cash', shares', positions')
                  = BookEquity(cash, shares, positions)) ]_vars

---------------------------------------------------------------------------
(* Warm-up *)

\* the lookback windows a parameter set asks for
RequiredWindows(config) ==
    {config[f] : f \in {"SHORT_WINDOW", "LONG_WINDOW", "WINDOW", "RSI_WINDOW"}
                       \cap DOMAIN config}

\* history lengths around the windows
ShortHistories == {0, 10, 19, 20, 49, 50}

\* C15: whenever the history is shorter than a lookback window the parameters
\* require (short, long, band or oscillator window), decide_action returns HOLD
\* with no order and leaves the strategy as it was, for both families, in the
\* backtest and live.
C15_HoldDuringWarmUp ==
    /\ (engine = "atlas") =>
          \A s \in Strategies :
             (\E w \in RequiredWindows(StrategyConfig[s]) : Len(history) < w)
             => (\A view \in MarketViews : decide_action(s, view) = Hold(s))
    /\ (engine = "citadel" /\ pc = "pairs" /\ todo # <<>>) =>
          LET symbol == Head(todo)[1]
              s == Head(todo)[2]
          IN  \A h \in ShortHistories :
                 (\E w \in RequiredWindows(LiveStrategyParameters[s]) : h < w)
                 => (\A view \in LiveViews, px \in LivePrices :
                        live_decide_action(s, symbol,
                                           [present |-> TRUE, price |-> px, history |-> h],
                                           view)
                          = LiveHold(s, symbol))

\* a live strategy was asked to decide on a history of 10 rows and no order
\* was submitted
C15_Witness ==
    /\ engine = "citadel" /\ pc = "pairs" /\ decided
    /\ ticks[SymbolOrder[1]].present /\ ticks[SymbolOrder[1]].history = 10
    /\ last_order = NoOrder
    /\ positions = ZeroBook

---------------------------------------------------------------------------
(* Round-trip P&L *)

\* the shares a strategy bought in the first n fills of a list, one entry per
\* share, each with the price it was bought at, oldest first
RECURSIVE BoughtShares(_, _, _)
BoughtShares(trades, id, n) ==
    IF n = 0 THEN <<>>
    ELSE BoughtShares(trades, id, n - 1)
         \o (IF trades[n].id = id /\ trades[n].side = "buy"
             THEN [u \in 1..trades[n].qty |-> trades[n].price] ELSE <<>>)

\* how many of them the sells among the first n fills have taken, a sell
\* taking what is left when it asks for more
RECURSIVE SoldShares(_, _, _)
SoldShares(trades, id, n) ==
    IF n = 0 THEN 0
    ELSE LET before == SoldShares(trades, id, n - 1)
             left == Len(BoughtShares(trades, id, n - 1)) - before
         IN  IF trades[n].id = id /\ trades[n].side = "sell"
             THEN before + (IF trades[n].qty < left THEN trades[n].qty ELSE left)
             ELSE before

\* the P&L of the sell at position n, share by share, first in first out
FifoPnl(trades, n) ==
    LET id == trades[n].id
        bought == BoughtShares(trades, id, n)
        from == SoldShares(trades, id, n - 1)
        to == SoldShares(trades, id, n)
        RECURSIVE Sum(_)
        Sum(u) == IF u <= from THEN 0
                  ELSE Sum(u - 1) + (trades[n].price - bought[u])
    IN  Sum(to)

\* the P&L of every sell that found an open buy, in the order of the list,
\* those of zero left out
RECURSIVE FifoPnlList(_, _)
FifoPnlList(trades, n) ==
    IF n = 0 THEN <<>>
    ELSE FifoPnlList(trades, n - 1)
         \o (IF trades[n].side = "sell" /\ FifoPnl(trades, n) # 0
             THEN <<FifoPnl(trades, n)>> ELSE <<>>)

\* the shares the open buys of a strategy stand for, in a list and its deque
RECURSIVE OpenShares(_, _)
OpenShares(trades, open) ==
    IF open = <<>> THEN <<>>
    ELSE [u \in 1..trades[Head(open)].qty |-> trades[Head(open)].price]
         \o OpenShares(trades, Tail(open))

\* C16: calculate_round_trip_pnl matches every sell of a strategy with the
\* strategy's open buys first in first out; the P&L of a sell is the sum of
\* (sell price - matched buy price) x matched quantity; what is left of a
\* partly matched buy stays open.  Buys of 10 @ 100 and 5 @ 110 and a sell of
\* 12 @ 120 give 220 and leave 3 @ 110 open.
C16_FifoRoundTrips ==
    [][ (pc = "log")
        => (/\ pnl_list' = FifoPnlList(trade_log, Len(trade_log))
            /\ \A id \in Strategies :
                  LET bought == BoughtShares(trade_log, id, Len(trade_log))
                      sold == SoldShares(trade_log, id, Len(trade_log))
                  IN  OpenShares(trade_log', open_buys'[id])
                        = SubSeq(bought, sold + 1, Len(bought))) ]_vars

\* the example: 220 was returned and 3 @ 110 are open
C16_Witness ==
    /\ pc = "analysed" /\ Len(trade_log) = 3
    /\ trade_log[1].side = "buy" /\ trade_log[1].price = 100
    /\ trade_log[2].side = "buy" /\ trade_log[2].price = 110
    /\ trade_log[3].side = "sell" /\ trade_log[3].qty = 12 /\ trade_log[3].price = 120
    /\ \A n \in 1..3 : trade_log[n].id = StrategyOrder[1]
    /\ pnl_list = <<220>>
    /\ open_buys[StrategyOrder[1]] = <<2>>
    /\ trade_log[2].qty = 3

\* C17: a fill is immutable once it is in the trade log: no later operation,
\* the round-trip P&L calculation included, changes a field of it; calling
\* calculate_round_trip_pnl twice on the same log returns the same list and
\* leaves every fill with the quantity that was settled.
C17_FillsImmutable ==
    [][ /\ trade_log' = trade_log
        /\ (pc = "analysed") => (pnl_list' = pnl_list) ]_vars

---------------------------------------------------------------------------
(* The optimizer *)

C19_FailedTrialDoesNotAbort ==
    (pc \in {"returned", "raised"}) => (combos_to_test = <<>>)

---------------------------------------------------------------------------
\* C20: the position ledger round-trips exactly.  Whatever the strategies
\* hold, reading back what _save_portfolio_to_disk writes gives the same
\* quantity for every strategy and symbol; and a coordinator constructed over
\* the ledger that was written from the positions held starts with exactly
\* those positions.  (A write that fails leaves the older file, or a truncated
\* one, on disk: the constructor then restores what that file holds.)
C20_LedgerRoundTrips ==
    /\ [](engine = "citadel" =>
            _load_portfolio_from_disk(_save_portfolio_to_disk(positions)) = positions)
    /\ [][(Restart /\ portfolio_file = _save_portfolio_to_disk(positions))
            => (positions' = positions)]_vars

\* a coordinator just constructed over a ledger that holds a position of the
\* second strategy, after a session that traded
C20_Witness ==
    /\ engine = "citadel" /\ pc = "idle"
    /\ trade_count = 0 /\ last_order = NoOrder /\ batches > 0
    /\ portfolio_file = _save_portfolio_to_disk(positions)
    /\ \E symbol \in Symbols : positions[StrategyOrder[2]][symbol] > 0

---------------------------------------------------------------------------
\* C21: after every successful live fill, when submit_order has returned,
\* the ledger on disk holds the positions of all strategies as they are after
\* the fill (a write that failed would have been retried until it succeeded).
C21_LedgerCurrentAfterFill ==
    (engine = "citadel" /\ last_order.settled)
        => (portfolio_file = _save_portfolio_to_disk(positions))

---------------------------------------------------------------------------
\* execute_orders, lines 175-194: a fill moves the quantity at the reference
\* price adjusted by the slippage, and the transaction cost on top (all in
\* ten-thousandths, so that nothing is rounded)
SlippageAndCostCharged(side, qty, reference_price, cash_before, cash_after) ==
    IF side = "buy"
    THEN (cash_before - cash_after) * 10000
            >= qty * reference_price * (10000 + SLIPPAGE_BPS)
    ELSE (cash_after - cash_before) * 10000
            <= qty * reference_price * (10000 - SLIPPAGE_BPS)

\* C22: live settlement applies the rules of backtest settlement.  Every fill,
\* of MarketSimulator.execute_orders and of ChiefInvestmentOfficer.submit_order
\* alike, changes the strategy's cash by the quantity at the slippage-adjusted
\* price with the transaction cost charged: a buy takes at least the quantity
\* at the price raised by the slippage, a sale yields at most the quantity at
\* the price lowered by it.
C22_LiveSettlesAsBacktest ==
    [][/\ (engine = "atlas" /\ Len(trade_log') = Len(trade_log) + 1)
            => (LET fill == trade_log'[Len(trade_log')]
                IN  SlippageAndCostCharged(fill.side, fill.qty, price,
                                           cash[fill.id], cash'[fill.id]))
       /\ (engine = "citadel" /\ trade_count' = trade_count + 1)
            => (LET order == last_order'
                IN  SlippageAndCostCharged(order.side, order.qty, order.price,
                                           cash[order.id], cash'[order.id]))]_vars

---------------------------------------------------------------------------
\* C23: calculate_metrics returns a Sharpe ratio of exactly 0 whenever the
\* return series has fewer than 2 observations or its annualized volatility
\* is 0, and otherwise (annualized return - risk-free rate) / annualized
\* volatility.
C23_SharpeRatio ==
    (pc = "measured") =>
        LET returns == pct_change(equity_curve)
            sharpe == results[1].sharpe
        IN  IF Len(returns) < 2 THEN sharpe = 0
            ELSE IF annualized_volatility(returns) = 0 THEN sharpe = 0
            ELSE LET excess == (annualized_returns(returns) - RISK_FREE_RATE) * 1000
                 IN  /\ sharpe * annualized_volatility(returns) <= excess
                     /\ excess < (sharpe + 1) * annualized_volatility(returns)

\* the metrics of a curve of three points that grows by the same rate at every
\* point, so that its returns have no volatility
C23_Witness ==
    /\ pc = "measured"
    /\ Len(pct_change(equity_curve)) = 2
    /\ pct_change(equity_curve)[1] > 0
    /\ annualized_volatility(pct_change(equity_curve)) = 0
    /\ results[1].sharpe = 0

---------------------------------------------------------------------------
\* C24: a coordinator that starts from a ledger with open positions gives each
\* strategy its share of the initial capital less what its restored positions
\* cost, so the restart does not add to the total equity: the new book, valued
\* at the prices known before the restart, is worth no more than the old one.
C24_RestartAddsNoEquity ==
    [][Restart =>
         (cio_get_total_equity(cash', positions', last_known_prices)
            <= cio_get_total_equity(cash, positions, last_known_prices))]_vars

---------------------------------------------------------------------------
\* the first bar of the data on which the daily cycle runs (the bars before it
\* are buffered only)
FirstProcessedBar == max_warmup_window - 1

\* the book valued at a price: cash and holdings of every strategy
BookValue(current_price) ==
    LET RECURSIVE Sum(_)
        Sum(S) == IF S = {} THEN 0
                  ELSE LET s == CHOOSE x \in S : TRUE
                       IN  cash[s] + shares[s] * current_price + Sum(S \ {s})
    IN  Sum(Strategies)

\* C25: MarketSimulator.run produces exactly one equity-curve point for every
\* bar it processes (every bar on which the daily operations and the
\* settlement ran; the bars of the warm-up are buffered only), the points are
\* in the chronological order of the bars, and a point is the sum over the
\* strategies of cash + shares x the close of its bar, taken once the bar's
\* orders are settled.
C25_OneEquityPointPerBar ==
    (engine = "atlas") =>
        /\ \A j \in 1..Len(equity_curve) :
              equity_curve[j].date = FirstProcessedBar + j - 1
        /\ (pc \in {"run", "done"}) =>
              Len(equity_curve) = (IF i > FirstProcessedBar
                                   THEN i - FirstProcessedBar ELSE 0)
        /\ (pc \in {"ops", "exec", "settle", "record"}) =>
              Len(equity_curve) = i - FirstProcessedBar
        /\ (pc \in {"run", "done"} /\ equity_curve # <<>>) =>
              /\ equity_curve[Len(equity_curve)].equity = BookValue(price)
              /\ order_queue = <<>> /\ orders_to_process = <<>>

\* the second point of a curve is recorded while a strategy holds shares it
\* bought on an earlier bar
C25_Witness ==
    /\ engine = "atlas" /\ pc = "run"
    /\ Len(equity_curve) = 2
    /\ trade_log # <<>>
    /\ \E s \in Strategies : shares[s] > 0

---------------------------------------------------------------------------
\* the longest lookback window of a simulator's strategies, as run computes it
WarmupWindow ==
    IF engine = "atlas" THEN max_warmup_window
    ELSE Max({20, v13_StrategyConfig.Trend.LONG_WINDOW,
              v13_StrategyConfig.MeanReversion.WINDOW})

\* C26: during a backtest the retained price history is bounded.  In every
\* simulator of the repository, after every bar the history buffer holds at
\* most the warm-up window + 50 rows, and they are the most recent rows in
\* chronological order.
C26_HistoryBounded ==
    (engine \in {"atlas", "atlas_v13"}) =>
        /\ Len(history) <= WarmupWindow + 50
        /\ \A j \in 1..Len(history) :
              history[j] = history[Len(history)] - Len(history) + j

---------------------------------------------------------------------------
\* C27: the Risk Manager's peak equity is updated by every equity observation.
\* Once a tick batch was delivered, peak_equity is the highest total equity
\* observed at a tick since the last assess_new_day, and it is not below the
\* total equity of the book.
C27_PeakFollowsEquity ==
    (engine \in {"citadel", "v13"} /\ batches > 0) =>
        /\ peak_equity = session_peak
        /\ peak_equity >= (IF engine = "citadel"
                           THEN cio_get_total_equity(cash, positions, last_known_prices)
                           ELSE v13_get_total_equity(cash, positions, last_known_prices))

---------------------------------------------------------------------------
\* the fills of one strategy, in the order of the trade log
FillsOf(s) == SelectSeq(trade_log, LAMBDA fill : fill.id = s)

\* C28: in a backtest the fills of any one strategy alternate buy, sell, buy,
\* ... starting with a buy; every sell fill closes the whole position, so the
\* position is zero after every sell fill (and what the last buy bought after
\* a buy fill).
C28_FillsAlternate ==
    (engine \in {"atlas", "atlas_v13"}) =>
        \A s \in Strategies :
            LET fills == FillsOf(s) IN
            /\ \A j \in 1..Len(fills) :
                  /\ fills[j].side = (IF j % 2 = 1 THEN "buy" ELSE "sell")
                  /\ (j % 2 = 0) => (fills[j].qty = fills[j - 1].qty)
            /\ shares[s] = (IF Len(fills) % 2 = 1 THEN fills[Len(fills)].qty ELSE 0)

\* a strategy of the current backtest bought, sold and bought again
C28_Witness ==
    /\ engine = "atlas"
    /\ \E s \in Strategies : Len(FillsOf(s)) = 3 /\ shares[s] > 0

---------------------------------------------------------------------------
\* C29: exit prices are armed only while a position is held.  At the end of
\* every cycle (a bar of the backtest, a tick batch of the live engine) a
\* strategy whose position is zero has a stop-loss price and a take-profit
\* price of zero, also when its BUY order was rejected for insufficient cash
\* or by the Risk Manager.
C29_ExitPricesOnlyWhileHeld ==
    /\ (engine = "atlas" /\ pc \in {"run", "done"}) =>
          \A s \in Strategies :
              (shares[s] = 0) => (stop_loss_price[s] = 0 /\ take_profit_price[s] = 0)
    /\ (engine = "citadel" /\ pc = "idle") =>
          \A s \in Strategies, symbol \in Symbols :
              (positions[s][symbol] = 0) =>
                  (stop_loss_prices[s][symbol] = 0 /\ take_profit_prices[s][symbol] = 0)

---------------------------------------------------------------------------
\* C30: in live mode every strategy and symbol with a position above zero has
\* a non-zero stop-loss price at the end of every tick batch, and from the
\* construction of the coordinator on: the exit prices are cleared only when
\* the exit sale settled, and the positions restored from the ledger are
\* given a stop-loss.
C30_HeldPositionsHaveStopLoss ==
    (engine = "citadel" /\ pc = "idle") =>
        \A s \in Strategies, symbol \in Symbols :
            (positions[s][symbol] > 0) => (stop_loss_prices[s][symbol] > 0)

====
